---- MODULE Spec2Model ----
(***************************************************************************)
(* Model of the bsvdb ChainStore on FoundationDB                           *)
(* (chainstore/src/fdb_chain_store.rs, chainstore/src/chain_store.rs).     *)
(*                                                                         *)
(* The committed key-value database is the variable db.  Every             *)
(* store_block_info call runs as a spawned task with its own FoundationDB  *)
(* transaction: the transaction takes its read version at its first read,  *)
(* reads its snapshot overlaid with its own writes, and its commit fails   *)
(* when a key it read was written by a transaction that committed after    *)
(* the read version was taken.  Each await of the task is one action.      *)
(***************************************************************************)
EXTENDS Integers, Sequences, FiniteSets, TLC

\* ------------------------------------------------------------------ bounds
\* number of store_block_info calls issued in one behaviour
MaxTasks == 3
\* number of distinct non-genesis block hashes that callers submit
NumHashes == 3

\* ------------------------------------------------------------- block graph
\* hash of the genesis header
GenesisHash == 0
\* prev_hash of the genesis header (all zero bytes): never the hash of a block
NullHash == -1
\* the hashes of the headers that callers submit
Hashes == 1..NumHashes
\* header.prev_hash of the header with hash h: the hash is computed from the
\* header, so it determines the parent hash.  Hashes 1 and 2 fork from genesis.
PrevHash(h) == IF h = GenesisHash THEN NullHash ELSE (h - 1) \div 2

Tasks == 1..MaxTasks

\* ------------------------------------------------------------------- keys
STATE_KEY == <<"statekey", 0>>
NEXT_ID_KEY == <<"nextid", 0>>
get_block_info_key(id) == <<"infos", id>>
get_h_index_key(h) == <<"hindex", h>>

\* ------------------------------------------------------------ list helpers
Range(s) == {s[i] : i \in DOMAIN s}
Contains(s, x) == x \in Range(s)
NoDuplicates(s) == \A i, j \in DOMAIN s : i # j => s[i] # s[j]

\* ---------------------------------------------------------------- records
\* Option<T>: None is the empty sequence, Some(x) the sequence of x alone
None == <<>>
Some(x) == <<x>>

\* the values of BlockValidity
BlockValidity ==
    {"Unknown", "Valid", "ValidHeader", "Invalid", "HeaderInvalid",
     "InvalidAncestor"}

\* chain_work of the main chain genesis block, 0x...0100010001, as its
\* trailing big-endian bytes
GenesisChainWork == <<1, 0, 1, 0, 1>>

\* BlockInfo::genesis_info for the main chain, restricted to the fields that
\* store_block_info reads or writes
genesis_info ==
    [id |-> 0, hash |-> GenesisHash, prev_hash |-> NullHash, height |-> 0,
     prev_id |-> 0, next_ids |-> <<>>,
     size |-> Some(285), num_tx |-> Some(1),
     chain_work |-> Some(GenesisChainWork),
     total_tx |-> Some(1), total_size |-> Some(285), validity |-> "Valid"]

\* the attributes of a freshly built BlockInfo for a header: placeholders for
\* height and prev_id, no optional attribute, validity Unknown
FreshAttrs ==
    [height |-> 0, prev_id |-> 0, size |-> None, num_tx |-> None,
     chain_work |-> None, total_tx |-> None, total_size |-> None,
     validity |-> "Unknown"]

\* the candidate a caller submits for hash h with next_ids nx and attributes a
CandidateWith(h, nx, a) ==
    [id |-> 0, hash |-> h, prev_hash |-> PrevHash(h), height |-> a.height,
     prev_id |-> a.prev_id, next_ids |-> nx,
     size |-> a.size, num_tx |-> a.num_tx, chain_work |-> a.chain_work,
     total_tx |-> a.total_tx, total_size |-> a.total_size,
     validity |-> a.validity]

\* the candidate a caller submits: id, height and prev_id are placeholders
Candidate(h, nx) == CandidateWith(h, nx, FreshAttrs)

\* From<BlockValidity> for u8
validity_to_u8(v) ==
    CASE v = "Unknown" -> 0
      [] v = "Valid" -> 1
      [] v = "ValidHeader" -> 2
      [] v = "Invalid" -> 3
      [] v = "HeaderInvalid" -> 4
      [] v = "InvalidAncestor" -> 5

\* From<u8> for BlockValidity
validity_from_u8(value) ==
    IF value = 1 THEN "Valid"
    ELSE IF value = 2 THEN "ValidHeader"
    ELSE IF value = 3 THEN "Invalid"
    ELSE IF value = 4 THEN "HeaderInvalid"
    ELSE IF value = 5 THEN "InvalidAncestor"
    ELSE "Unknown"

\* the elements of the tuple layer that a BlockInfo is packed into
ElementNil == <<"Nil">>
ElementInt(x) == <<"Int", x>>
ElementBytes(b) == <<"Bytes", b>>

\* Element::as_i64 and Element::as_bytes: the value of an element of that
\* variant, None for any other element
as_i64(e) == IF e[1] = "Int" THEN Some(e[2]) ELSE None
as_bytes(e) == IF e[1] = "Bytes" THEN Some(e[2]) ELSE None

\* encode_block_info: the tuple written for a record. An Option<u64> is
\* written as Int or Nil, chain_work as Bytes or Nil and the validity as the
\* Int of its u8; id, hash, height, prev_id and next_ids are written as Int,
\* Bytes and a Tuple of Int and read back with unwrap, and keep their values
\* here (the cast to i64 and back is the identity below 2^63)
encode_block_info(v) ==
    [v EXCEPT !.size = IF @ = None THEN ElementNil ELSE ElementInt(@[1]),
              !.num_tx = IF @ = None THEN ElementNil ELSE ElementInt(@[1]),
              !.chain_work = IF @ = None THEN ElementNil
                            ELSE ElementBytes(@[1]),
              !.total_tx = IF @ = None THEN ElementNil ELSE ElementInt(@[1]),
              !.total_size = IF @ = None THEN ElementNil ELSE ElementInt(@[1]),
              !.validity = ElementInt(validity_to_u8(@))]

\* decode_block_info with the elements of total_tx and total_size exchanged
decode_block_info_swapped_totals(v) ==
    [v EXCEPT !.size = as_i64(@),
              !.num_tx = as_i64(@),
              !.chain_work = as_bytes(@),
              !.total_tx = as_i64(v.total_size),
              !.total_size = as_i64(v.total_tx),
              !.validity = validity_from_u8(as_i64(@)[1])]

\* decode_block_info: the record read back from a stored tuple
decode_block_info(v) ==
    [v EXCEPT !.size = as_i64(@),
              !.num_tx = as_i64(@),
              !.chain_work = as_bytes(@),
              !.total_tx = as_i64(@),
              !.total_size = as_i64(@),
              !.validity = validity_from_u8(as_i64(@)[1])]

\* ---------------------------------------------------------------- database
\* an absent record value (a get that returns None)
NoValue == [absent |-> TRUE]
\* an absent id value
NoId == -1
\* a database with no key set: no ChainState, no next id, no record, no index
EmptyDb == [state |-> NoValue, nextid |-> NoId,
            infos |-> <<>>, hindex |-> <<>>]

\* ensure_db_initialized with the allocator key starting at the genesis id
ensure_db_initialized_next_zero(d) ==
    IF d.state = NoValue
    THEN [state |-> [most_work_tip |-> 0, active_tips |-> <<0>>,
                     dormant_tips |-> <<>>, invalid_tips |-> <<>>],
          nextid |-> 0,
          infos |-> (0 :> encode_block_info(genesis_info)),
          hindex |-> (GenesisHash :> 0)]
    ELSE d

\* ensure_db_initialized without the check that STATE_KEY is absent
ensure_db_initialized_always(d) ==
    [state |-> [most_work_tip |-> 0, active_tips |-> <<0>>,
                dormant_tips |-> <<>>, invalid_tips |-> <<>>],
     nextid |-> 1,
     infos |-> (0 :> encode_block_info(genesis_info)),
     hindex |-> (GenesisHash :> 0)]

\* FDBChainStoreActor::ensure_db_initialized, applied to database d
ensure_db_initialized(d) ==
    IF d.state = NoValue
    THEN [state |-> [most_work_tip |-> 0, active_tips |-> <<0>>,
                     dormant_tips |-> <<>>, invalid_tips |-> <<>>],
          nextid |-> 1,
          infos |-> (0 :> encode_block_info(genesis_info)),
          hindex |-> (GenesisHash :> 0)]
    ELSE d

\* the writes w of a transaction with view v, applied to database d
ApplyWrites(d, v, w) ==
    [state |-> IF STATE_KEY \in w THEN v.state ELSE d.state,
     nextid |-> IF NEXT_ID_KEY \in w THEN v.nextid ELSE d.nextid,
     infos |-> [i \in DOMAIN d.infos \cup
                      {j \in DOMAIN v.infos : get_block_info_key(j) \in w} |->
                   IF get_block_info_key(i) \in w THEN v.infos[i]
                   ELSE d.infos[i]],
     hindex |-> [h \in DOMAIN d.hindex \cup
                       {g \in DOMAIN v.hindex : get_h_index_key(g) \in w} |->
                   IF get_h_index_key(h) \in w THEN v.hindex[h]
                   ELSE d.hindex[h]]]

\* ------------------------------------------------------------------- state
VARIABLES
    db,            \* the committed database
    tasks,         \* the spawned store_block_info tasks and their transactions
    next_id_lock,  \* holder of FDBChainStoreActor.next_id_lock, 0 when free
    ncalls,        \* number of store_block_info calls issued so far
    allocLog,      \* ids of the committed inserts of new hashes, commit order
    openLog,       \* per FDBChainStore::new so far, the NEXT_ID_KEY it found
    handles,       \* number of live FDBChainStore handles (clones of sender)
    receiver,      \* the command channel: requests sent and not yet received
    actor,         \* where FDBChainStoreActor::run is: select, sleep, exiting
                   \* (Done was sent), exited (run returned, receiver dropped)
    requests,      \* the requests made through the handles, in call order
    sync,          \* the state of sync_piped
    archive,       \* the files under root_path of the block archive, the calls
                   \* on the SimpleFileBasedBlockArchive and its block_list
    cli            \* the configuration and the command of the bsvdb program

vars == <<db, tasks, next_id_lock, ncalls, allocLog, openLog,
          handles, receiver, actor, requests, sync, archive, cli>>

\* the state of the handle, the actor and the synchronizer
actorVars == <<handles, receiver, actor, requests, sync>>

\* the state of the block archive and of the command line program
toolVars == <<archive, cli>>

\* the state of the store and its store_block_info tasks
storeVars == <<db, tasks, next_id_lock, ncalls, allocLog, openLog>>

\* sync_piped has not been called
IdleSync == [pc |-> "idle", stage1 |-> "idle", block_hashes |-> <<>>,
             sent |-> 0, chan |-> <<>>, i |-> 0]

\* no file under root_path, no call on the archive, block_list not called
IdleArchive ==
    [files |-> {}, calls |-> <<>>, okLog |-> {},
     walk |-> [pc |-> "idle", stack |-> <<>>, chan |-> <<>>, items |-> <<>>,
               ended |-> FALSE]]

\* the program has not been started
IdleCli ==
    [pc |-> "idle", cmd |-> "", ba_enabled |-> FALSE, cs_enabled |-> FALSE,
     all_tips |-> FALSE, opened |-> FALSE, ops |-> <<>>, tips |-> <<>>,
     known_hashes |-> {}, fetch_hashes |-> <<>>, hash |-> -1,
     imported |-> <<>>]

\* FDBChainStore::new: the command channel is created empty, run is spawned
\* and one handle is returned
ActorStarted ==
    /\ handles = 1
    /\ receiver = <<>>
    /\ actor = "select"
    /\ requests = <<>>

\* a task slot: pc is the await the task is suspended at; block is the
\* BlockInfo the task owns; started, view, reads, writes and stale are its
\* transaction (read version taken, snapshot overlaid with own writes, read
\* conflict keys, written keys, keys committed by others since the read
\* version); reply is what happened to the oneshot reply sender; parentStored
\* and isNew record, for the properties, whether the parent was committed when
\* the call was issued and whether the task allocated a fresh id; cand is the
\* BlockInfo as the caller submitted it.
IdleTask ==
    [pc |-> "idle", block |-> genesis_info, cand |-> genesis_info,
     started |-> FALSE,
     view |-> EmptyDb, reads |-> {}, writes |-> {}, stale |-> {},
     reply |-> "none", panic |-> "none",
     parentStored |-> FALSE, isNew |-> FALSE]

\* ------------------------------------------------------------ transactions
\* the first read of a transaction takes its read version: the snapshot is d
TrxStart(k, d) ==
    IF k.started THEN k
    ELSE [k EXCEPT !.started = TRUE, !.view = d, !.stale = {}]

\* trx.get(key, false): a non-snapshot read adds key to the read conflicts
TrxRead(k, key) == [k EXCEPT !.reads = @ \cup {key}]

\* a function with key i set to val
Put(f, i, val) == [j \in DOMAIN f \cup {i} |-> IF j = i THEN val ELSE f[j]]

\* a commit that never meets a conflict
CommitConflict_never(k) == FALSE

\* trx.commit() fails (not_committed) when a key read was committed by another
\* transaction after the read version was taken
CommitConflict(k) == k.reads \cap k.stale # {}

\* a panic that comes only after the transaction was committed
drop_trx_committed(d, v, w) == ApplyWrites(d, v, w)

\* a transaction dropped without commit (the task panicked): nothing of its
\* view v and writes w reaches database d
drop_trx(d, v, w) == d

\* the transaction of a finished task is gone
Finish(k, reply, panic) ==
    [k EXCEPT !.pc = "done", !.reply = reply, !.panic = panic,
              !.started = FALSE, !.view = EmptyDb,
              !.reads = {}, !.writes = {}, !.stale = {}]

\* ------------------------------------------------------- store_block_info

\* get_block_id_from_hash on view v: the id of hash h, NoId for Ok(None)
get_block_id_from_hash(v, h) ==
    IF h \in DOMAIN v.hindex THEN v.hindex[h] ELSE NoId

\* get_next_id that writes back the id it read
get_next_id_no_increment(v) ==
    [id |-> v.nextid, view |-> [v EXCEPT !.nextid = v.nextid]]

\* get_next_id that increments before it takes the id
get_next_id_pre_increment(v) ==
    [id |-> v.nextid + 1, view |-> [v EXCEPT !.nextid = v.nextid + 1]]

\* get_next_id on view v: the id read at NEXT_ID_KEY and the view after
\* trx.set(NEXT_ID_KEY, id + 1)
get_next_id(v) ==
    [id |-> v.nextid, view |-> [v EXCEPT !.nextid = v.nextid + 1]]

\* a store that forgets the hash index entry of a new block
set_h_index_skipped(v, h, id) == v

\* trx.set(get_h_index_key(hash), encode_h_index(id)) on view v
set_h_index(v, h, id) == [v EXCEPT !.hindex = Put(@, h, id)]

\* sub_block_info_by_hash on view v: the record of hash h, NoValue for Ok(None)
sub_block_info_by_hash(v, h) ==
    LET id == get_block_id_from_hash(v, h) IN
    IF id = NoId THEN NoValue
    ELSE IF id \in DOMAIN v.infos THEN decode_block_info(v.infos[id])
    ELSE NoValue

\* add_child without the contains check
add_child_always(parent, id) ==
    [parent EXCEPT !.next_ids = Append(@, id)]

\* the parent with the child id listed in its next_ids (pushed when missing)
add_child(parent, id) ==
    IF ~Contains(parent.next_ids, id)
    THEN [parent EXCEPT !.next_ids = Append(@, id)]
    ELSE parent

\* link_block that sets prev_id and keeps the height as submitted
link_block_keeps_height(block, parent) ==
    [block EXCEPT !.prev_id = parent.id]

\* the block with height and prev_id taken from its parent
link_block(block, parent) ==
    [block EXCEPT !.height = parent.height + 1, !.prev_id = parent.id]

\* the block with total_size and total_tx recomputed from its parent when both
\* the parent's total and the block's own figure are present
update_totals(block, parent) ==
    LET b1 == IF parent.total_size # None /\ block.size # None
              THEN [block EXCEPT
                       !.total_size = Some(parent.total_size[1] + block.size[1])]
              ELSE block
    IN IF parent.total_tx # None /\ b1.num_tx # None
       THEN [b1 EXCEPT !.total_tx = Some(parent.total_tx[1] + b1.num_tx[1])]
       ELSE b1

\* propagate_validity without the demotion under a ValidHeader parent
propagate_validity_no_demotion(pv, cand) ==
    CASE pv = "Unknown" -> "Unknown"
      [] pv = "Valid" -> cand
      [] pv = "ValidHeader" -> cand
      [] pv = "Invalid" -> "InvalidAncestor"
      [] pv = "HeaderInvalid" -> "InvalidAncestor"
      [] pv = "InvalidAncestor" -> "InvalidAncestor"

\* propagate_validity that hands an Invalid parent's validity to the child
propagate_validity_copies_invalid(pv, cand) ==
    CASE pv = "Unknown" -> "Unknown"
      [] pv = "Valid" -> cand
      [] pv = "ValidHeader" ->
            IF cand = "Valid" THEN "ValidHeader" ELSE cand
      [] pv = "Invalid" -> "Invalid"
      [] pv = "HeaderInvalid" -> "InvalidAncestor"
      [] pv = "InvalidAncestor" -> "InvalidAncestor"

\* the validity stored for a block submitted with validity cand under a parent
\* of validity pv
propagate_validity(pv, cand) ==
    CASE pv = "Unknown" -> "Unknown"
      [] pv = "Valid" -> cand
      [] pv = "ValidHeader" ->
            IF cand = "Valid" THEN "ValidHeader" ELSE cand
      [] pv = "Invalid" -> "InvalidAncestor"
      [] pv = "HeaderInvalid" -> "InvalidAncestor"
      [] pv = "InvalidAncestor" -> "InvalidAncestor"

\* the record store_block_info saves for block under parent: totals, height,
\* prev_id and validity are updated, everything else is as submitted
update_block(block, parent) ==
    LET b1 == link_block(update_totals(block, parent), parent)
    IN [b1 EXCEPT !.validity = propagate_validity(parent.validity, @)]

\* what the caller of store_block_info returns for the fate of the reply
caller_result(reply) ==
    IF reply = "BlockInfoReply" THEN "Ok"
    ELSE IF reply = "dropped" THEN "OneshotRecvError"
    ELSE IF reply = "none" THEN "none"
    ELSE "Internal"

\* a call of store_block_info with the header of hash h and next_ids nx: the
\* message reaches the actor, which creates a transaction and spawns the task
store_block_info(h, nx) ==
    /\ ncalls < MaxTasks
    /\ ncalls' = ncalls + 1
    /\ tasks' = [tasks EXCEPT ![ncalls + 1] =
                    [IdleTask EXCEPT !.pc = "hash", !.block = Candidate(h, nx),
                        !.cand = Candidate(h, nx),
                        !.parentStored = PrevHash(h) \in DOMAIN db.hindex]]
    /\ UNCHANGED <<db, next_id_lock, allocLog, openLog>>
    /\ UNCHANGED actorVars
    /\ UNCHANGED toolVars

\* the task looks up the id of its hash (first read of the transaction)
task_get_block_id_from_hash(t) ==
    /\ tasks[t].pc = "hash"
    /\ LET k0 == TrxStart(tasks[t], db)
           k1 == TrxRead(k0, get_h_index_key(k0.block.hash))
           id == get_block_id_from_hash(k1.view, k1.block.hash)
       IN tasks' = [tasks EXCEPT ![t] =
              IF id = NoId THEN [k1 EXCEPT !.pc = "lock"]
              ELSE [k1 EXCEPT !.pc = "parent", !.block.id = id]]
    /\ UNCHANGED <<db, next_id_lock, ncalls, allocLog, openLog>>
    /\ UNCHANGED actorVars
    /\ UNCHANGED toolVars

\* get_next_id: the task acquires the allocator mutex
task_lock_next_id(t) ==
    /\ tasks[t].pc = "lock"
    /\ next_id_lock = 0
    /\ next_id_lock' = t
    /\ tasks' = [tasks EXCEPT ![t].pc = "nextid"]
    /\ UNCHANGED <<db, ncalls, allocLog, openLog>>
    /\ UNCHANGED actorVars
    /\ UNCHANGED toolVars

\* get_next_id: the read of NEXT_ID_KEY returns, the key is set to id + 1 and
\* the mutex is released; the task then writes the hash index entry
task_get_next_id(t) ==
    /\ tasks[t].pc = "nextid"
    /\ next_id_lock = t
    /\ LET k1 == TrxRead(tasks[t], NEXT_ID_KEY)
           r == get_next_id(k1.view)
           h == k1.block.hash
       IN tasks' = [tasks EXCEPT ![t] =
              [k1 EXCEPT !.pc = "parent", !.block.id = r.id, !.isNew = TRUE,
                   !.view = set_h_index(r.view, h, r.id),
                   !.writes = @ \cup {NEXT_ID_KEY, get_h_index_key(h)}]]
    /\ next_id_lock' = 0
    /\ UNCHANGED <<db, ncalls, allocLog, openLog>>
    /\ UNCHANGED actorVars
    /\ UNCHANGED toolVars

\* the task looks up its parent; without a parent it panics, otherwise it
\* links parent and block and writes both records into the transaction
task_sub_block_info_by_hash(t) ==
    /\ tasks[t].pc = "parent"
    /\ LET k0 == tasks[t]
           ph == k0.block.prev_hash
           pid == get_block_id_from_hash(k0.view, ph)
           k1 == IF pid = NoId THEN TrxRead(k0, get_h_index_key(ph))
                 ELSE TrxRead(TrxRead(k0, get_h_index_key(ph)),
                              get_block_info_key(pid))
           parent == sub_block_info_by_hash(k1.view, ph)
       IN IF parent = NoValue
          THEN /\ tasks' = [tasks EXCEPT ![t] =
                               Finish(k1, "dropped", "parent not found")]
               /\ db' = drop_trx(db, k1.view, k1.writes)
          ELSE LET p2 == add_child(parent, k1.block.id)
                   b2 == update_block(k1.block, p2)
                   v1 == IF p2 # parent
                         THEN [k1.view EXCEPT !.infos =
                                   Put(@, p2.id, encode_block_info(p2))]
                         ELSE k1.view
                   w1 == IF p2 # parent THEN {get_block_info_key(p2.id)}
                         ELSE {}
                   v2 == [v1 EXCEPT !.infos =
                                   Put(@, b2.id, encode_block_info(b2))]
               IN /\ tasks' = [tasks EXCEPT ![t] =
                       [k1 EXCEPT !.pc = "commit", !.block = b2, !.view = v2,
                            !.writes = @ \cup w1 \cup
                                       {get_block_info_key(b2.id)}]]
                  /\ db' = db
    /\ UNCHANGED <<next_id_lock, ncalls, allocLog, openLog>>
    /\ UNCHANGED actorVars
    /\ UNCHANGED toolVars

\* trx.commit() returns: on success the writes are in the database and the
\* task sends the reply; on a conflict the task panics
task_commit(t) ==
    /\ tasks[t].pc = "commit"
    /\ LET k == tasks[t] IN
       IF CommitConflict(k)
       THEN /\ tasks' = [tasks EXCEPT ![t] =
                   Finish(k, "dropped", "couldnt commit transaction")]
            /\ db' = drop_trx(db, k.view, k.writes)
            /\ UNCHANGED allocLog
       ELSE /\ db' = ApplyWrites(db, k.view, k.writes)
            /\ tasks' = [u \in Tasks |->
                   IF u = t THEN Finish(k, "BlockInfoReply", "none")
                   ELSE IF tasks[u].started
                        THEN [tasks[u] EXCEPT !.stale = @ \cup k.writes]
                        ELSE tasks[u]]
            /\ allocLog' = IF k.isNew THEN Append(allocLog, k.block.id)
                           ELSE allocLog
    /\ UNCHANGED <<next_id_lock, ncalls, openLog>>
    /\ UNCHANGED actorVars
    /\ UNCHANGED toolVars

\* the next_ids a caller submits for hash h: an empty list (a fresh header) or
\* the list of the record it read before (an update of a stored block)
CandidateNextIds(h) ==
    {<<>>} \cup {db.infos[i].next_ids : i \in {j \in DOMAIN db.infos :
                                                db.infos[j].hash = h}}

Init ==
    /\ db = ensure_db_initialized(EmptyDb)
    /\ tasks = [t \in Tasks |-> IdleTask]
    /\ next_id_lock = 0
    /\ ncalls = 0
    /\ allocLog = <<>>
    /\ openLog = <<None>>
    /\ ActorStarted
    /\ sync = IdleSync
    /\ archive = IdleArchive
    /\ cli = IdleCli

Next ==
    \/ \E h \in Hashes : \E nx \in CandidateNextIds(h) : store_block_info(h, nx)
    \/ \E t \in Tasks : task_get_block_id_from_hash(t)
    \/ \E t \in Tasks : task_lock_next_id(t)
    \/ \E t \in Tasks : task_get_next_id(t)
    \/ \E t \in Tasks : task_sub_block_info_by_hash(t)
    \/ \E t \in Tasks : task_commit(t)

Spec == Init /\ [][Next]_vars

\* ------------------------------------------------------------- properties
Done(t) == tasks[t].pc = "done"
ReturnedOk(t) == Done(t) /\ caller_result(tasks[t].reply) = "Ok"
Failed(t) == Done(t) /\ caller_result(tasks[t].reply) # "Ok"
Count(s, x) == Cardinality({i \in DOMAIN s : s[i] = x})
TipIds(cs) ==
    Range(cs.active_tips) \cup Range(cs.dormant_tips) \cup Range(cs.invalid_tips)

\* C1: store_block_info calls for distinct hashes that share an already stored
\* parent all commit and return Ok, under any interleaving, and the parent's
\* stored next_ids finally contains the ids of all of them, without duplicates.
C1_SiblingStoresAllCommit ==
    \A t1, t2 \in Tasks :
        ( /\ t1 # t2
          /\ Done(t1) /\ Done(t2)
          /\ tasks[t1].block.hash # tasks[t2].block.hash
          /\ tasks[t1].block.prev_hash = tasks[t2].block.prev_hash
          /\ tasks[t1].parentStored /\ tasks[t2].parentStored )
        => /\ ReturnedOk(t1) /\ ReturnedOk(t2)
           /\ LET p == sub_block_info_by_hash(db, tasks[t1].block.prev_hash)
              IN /\ p # NoValue
                 /\ Count(p.next_ids, tasks[t1].block.id) = 1
                 /\ Count(p.next_ids, tasks[t2].block.id) = 1

\* C2: every committed insert of a new hash has an id no other committed
\* record has: records of different hashes never share an id, each record is
\* stored under its own id, and the hash index maps different hashes to
\* different ids.
C2_UniqueIds ==
    /\ \A i \in DOMAIN db.infos : db.infos[i].id = i
    /\ \A i, j \in DOMAIN db.infos :
           db.infos[i].hash # db.infos[j].hash => db.infos[i].id # db.infos[j].id
    /\ \A g, h \in DOMAIN db.hindex : g # h => db.hindex[g] # db.hindex[h]

\* two new hashes are committed with different ids although a concurrent
\* store lost its commit
C2_Witness ==
    /\ Len(allocLog) >= 2
    /\ \E t \in Tasks : tasks[t].panic = "couldnt commit transaction"

\* C3: every stored non-genesis record b has a stored record at b.prev_id whose
\* next_ids contains b.id, also after a re-store of a hash that has children.
C3_ParentListsChild ==
    \A i \in DOMAIN db.infos :
        i # 0 =>
            LET b == db.infos[i] IN
            /\ b.prev_id \in DOMAIN db.infos
            /\ Contains(db.infos[b.prev_id].next_ids, b.id)

\* C4: the hash of every block returned by a successful store_block_info is
\* found by get_block_info_by_hash with the returned id in every later
\* committed state, and the hash index maps a hash to an id only if the record
\* with that id exists and has that hash.
C4_HashIndexAgrees ==
    /\ \A t \in Tasks :
           ReturnedOk(t) =>
               LET r == sub_block_info_by_hash(db, tasks[t].block.hash)
               IN r # NoValue /\ r.id = tasks[t].block.id
    /\ \A h \in DOMAIN db.hindex :
           /\ db.hindex[h] \in DOMAIN db.infos
           /\ db.infos[db.hindex[h]].hash = h
           /\ db.infos[db.hindex[h]].id = db.hindex[h]

\* a store of a new hash returned Ok and a later store has committed since
C4_Witness ==
    \E t, u \in Tasks :
        /\ t # u /\ ReturnedOk(t) /\ ReturnedOk(u)
        /\ tasks[t].isNew /\ tasks[u].isNew
        /\ tasks[t].block.id < tasks[u].block.id

\* C5: a store_block_info whose header.prev_hash is not in the hash index
\* fails, and the caller receives the error kind ParentNotFound.
C5_ParentNotFoundReturned ==
    \A t \in Tasks :
        tasks[t].panic = "parent not found" =>
            caller_result(tasks[t].reply) = "ParentNotFound"

\* C6: a store_block_info that fails because the parent is unknown leaves the
\* committed store unchanged (hash index, NEXT_ID_KEY, records, ChainState).
C6_FailedStoreChangesNothing ==
    [][\A t \in Tasks :
          (tasks[t].pc = "parent" /\ tasks'[t].panic = "parent not found")
          => db' = db]_vars

\* a store of a new hash that had allocated an id and written its hash index
\* entry in its transaction failed on the unknown parent
C6_Witness ==
    \E t \in Tasks :
        /\ tasks[t].panic = "parent not found"
        /\ tasks[t].isNew
        /\ tasks[t].block.hash \notin DOMAIN db.hindex
        /\ db.nextid <= tasks[t].block.id

\* C7: the effects of one store_block_info (hash index entry, NEXT_ID_KEY
\* increment, parent's next_ids, the block's record, the ChainState update) are
\* visible together or not at all in every committed state.
C7_EffectsTogether ==
    \A h \in Hashes :
        LET indexed == h \in DOMAIN db.hindex
            recs == {i \in DOMAIN db.infos : db.infos[i].hash = h}
        IN IF indexed
           THEN LET id == db.hindex[h]
                    kids == {j \in DOMAIN db.infos :
                                j # 0 /\ db.infos[j].prev_id = id}
                IN /\ db.nextid > id
                   /\ id \in DOMAIN db.infos
                   /\ Contains(db.infos[db.infos[id].prev_id].next_ids, id)
                   /\ db.infos[id].prev_id \notin TipIds(db.state)
                   /\ (kids = {} => id \in TipIds(db.state))
           ELSE recs = {}

C9_NextIdAboveAllIds ==
    /\ \A i \in DOMAIN db.infos : db.nextid > i /\ db.nextid > db.infos[i].id
    /\ \A h \in DOMAIN db.hindex : db.nextid > db.hindex[h]

\* the allocator has advanced past three committed inserts
C9_Witness ==
    /\ db.nextid = 4
    /\ Cardinality(DOMAIN db.hindex) = 4

\* C10: the ids with a stored record are exactly 0 .. next_id - 1, also after
\* failed inserts and re-stores, and the ids of successive new inserts are
\* strictly increasing.
C10_DenseIncreasingIds ==
    /\ DOMAIN db.infos = 0..(db.nextid - 1)
    /\ \A i, j \in DOMAIN allocLog : i < j => allocLog[i] < allocLog[j]

\* two new inserts committed around a failed insert
C10_Witness ==
    /\ Len(allocLog) >= 2
    /\ \E t \in Tasks : Failed(t) /\ tasks[t].isNew

\* ===================================================================
\* Stores with attributes, one call at a time, on a store that is opened
\* (and re-opened) by FDBChainStore::new
\* ===================================================================
\* number of store_block_info calls issued in one behaviour of SpecAttrs
MaxStores == 3
\* number of FDBChainStore::new calls in one behaviour of SpecAttrs
MaxOpens == 2

\* chain_work of the header with hash h, as big-endian bytes: above the
\* genesis chain work and growing along every chain
ChainWorkOf(h) == <<1, 0, 1, h, 9 - h>>

\* a and b are byte strings of the same length read as big-endian unsigned
\* integers: a is strictly greater than b
RECURSIVE BigEndianGreater(_, _)
BigEndianGreater(a, b) ==
    IF a = <<>> \/ b = <<>> THEN FALSE
    ELSE IF a[1] # b[1] THEN a[1] > b[1]
    ELSE BigEndianGreater(Tail(a), Tail(b))

\* the attributes callers submit for hash h: the figures of the block (size
\* 215, one transaction, its chain work), no totals, any validity, and
\* arbitrary placeholders for height and prev_id
AttrChoices(h) ==
    {[height |-> hp[1], prev_id |-> hp[2], size |-> Some(215),
      num_tx |-> Some(1), chain_work |-> Some(ChainWorkOf(h)),
      total_tx |-> None, total_size |-> None, validity |-> v] :
        hp \in {<<0, 0>>, <<9, 15>>}, v \in BlockValidity}

\* FDBChainStore::new on the root path of the store: ensure_db_initialized
\* runs in one transaction of its own
new ==
    /\ Len(openLog) < MaxOpens
    /\ db' = ensure_db_initialized(db)
    /\ openLog' = Append(openLog, IF db.nextid = NoId THEN None
                                   ELSE Some(db.nextid))
    /\ UNCHANGED <<tasks, next_id_lock, ncalls, allocLog>>
    /\ UNCHANGED actorVars
    /\ UNCHANGED toolVars

\* a call of store_block_info with attributes, issued through the handle of
\* an opened store when the previous call has returned
store_block_info_attrs(h, nx, a) ==
    /\ Len(openLog) > 0
    /\ ncalls < MaxStores
    /\ tasks[1].pc \in {"idle", "done"}
    /\ ncalls' = ncalls + 1
    /\ tasks' = [tasks EXCEPT ![1] =
                    [IdleTask EXCEPT !.pc = "hash",
                        !.block = CandidateWith(h, nx, a),
                        !.cand = CandidateWith(h, nx, a),
                        !.parentStored = PrevHash(h) \in DOMAIN db.hindex]]
    /\ UNCHANGED <<db, next_id_lock, allocLog, openLog>>
    /\ UNCHANGED actorVars
    /\ UNCHANGED toolVars

InitAttrs ==
    /\ db = EmptyDb
    /\ tasks = [t \in Tasks |-> IdleTask]
    /\ next_id_lock = 0
    /\ ncalls = 0
    /\ allocLog = <<>>
    /\ openLog = <<>>
    /\ ActorStarted
    /\ sync = IdleSync
    /\ archive = IdleArchive
    /\ cli = IdleCli

NextAttrs ==
    \/ new
    \/ \E h \in Hashes : \E nx \in CandidateNextIds(h) :
          \E a \in AttrChoices(h) : store_block_info_attrs(h, nx, a)
    \/ \E t \in Tasks : task_get_block_id_from_hash(t)
    \/ \E t \in Tasks : task_lock_next_id(t)
    \/ \E t \in Tasks : task_get_next_id(t)
    \/ \E t \in Tasks : task_sub_block_info_by_hash(t)
    \/ \E t \in Tasks : task_commit(t)

SpecAttrs == InitAttrs /\ [][NextAttrs]_vars

\* get_chain_state: the ChainState a reader transaction finds in database d
get_chain_state(d) == d.state

\* the ids of ChainState list tips
TipSet(tips) == Range(tips)

\* the validities that put a tip into invalid_tips
InvalidValidities == {"Invalid", "HeaderInvalid", "InvalidAncestor"}

\* C11: every stored non-genesis record has the height of the record at its
\* prev_id plus 1, and the genesis record has height 0, whatever height and
\* prev_id the candidate carried.
C11_HeightIsParentPlusOne ==
    \A i \in DOMAIN db.infos :
        IF i = 0 THEN db.infos[i].height = 0
        ELSE /\ db.infos[i].prev_id \in DOMAIN db.infos
             /\ db.infos[i].height = db.infos[db.infos[i].prev_id].height + 1

\* a block submitted with height 9 and prev_id 15 is stored at height 2
C11_Witness ==
    /\ ReturnedOk(1)
    /\ tasks[1].cand.height = 9 /\ tasks[1].cand.prev_id = 15
    /\ tasks[1].block.id \in DOMAIN db.infos
    /\ db.infos[tasks[1].block.id].height = 2

\* C13: in every reachable state each stored non-genesis block's validity is
\* one the propagation table allows for its parent's current validity.
C13_ValidityFollowsParent ==
    \A i \in DOMAIN db.infos :
        (i # 0 /\ db.infos[i].prev_id \in DOMAIN db.infos) =>
            LET b == decode_block_info(db.infos[i])
                p == decode_block_info(db.infos[b.prev_id])
            IN /\ p.validity \in InvalidValidities
                      => b.validity = "InvalidAncestor"
               /\ p.validity = "Unknown" => b.validity = "Unknown"
               /\ p.validity = "ValidHeader" => b.validity # "Valid"

\* C15: after a successful store_block_info of a new block the ChainState
\* holds the block's id in invalid_tips when its validity is Invalid,
\* HeaderInvalid or InvalidAncestor and in active_tips otherwise, and holds the
\* parent's id in no tip set.
C15_InsertedBlockIsTip ==
    (ReturnedOk(1) /\ tasks[1].isNew) =>
        LET b == tasks[1].block
            cs == get_chain_state(db)
        IN /\ IF b.validity \in InvalidValidities
              THEN b.id \in TipSet(cs.invalid_tips)
              ELSE b.id \in TipSet(cs.active_tips)
           /\ b.prev_id \notin TipIds(cs)

\* C16: in every committed state the three tip lists are pairwise disjoint,
\* their union is the set of ids of the stored records with empty next_ids,
\* and most_work_tip is in active_tips.
C16_TipsPartitionLeaves ==
    db.state # NoValue =>
        LET cs == get_chain_state(db)
            a == TipSet(cs.active_tips)
            d == TipSet(cs.dormant_tips)
            i == TipSet(cs.invalid_tips)
        IN /\ a \cap d = {} /\ a \cap i = {} /\ d \cap i = {}
           /\ a \cup d \cup i =
                 {j \in DOMAIN db.infos : db.infos[j].next_ids = <<>>}
           /\ cs.most_work_tip \in a

\* C17: when the insert of a new block commits and the block's chain_work, as
\* a big-endian unsigned integer, strictly exceeds the chain_work of the
\* current most_work_tip, most_work_tip becomes the id of the inserted block.
C17_MostWorkTipFollowsWork ==
    [][\A t \in Tasks :
          ( /\ tasks[t].pc = "commit"
            /\ tasks'[t].reply = "BlockInfoReply"
            /\ tasks[t].isNew
            /\ tasks[t].block.chain_work # None
            /\ decode_block_info(db.infos[db.state.most_work_tip]).chain_work
                   # None
            /\ BigEndianGreater(tasks[t].block.chain_work[1],
                   decode_block_info(
                       db.infos[db.state.most_work_tip]).chain_work[1]) )
          => get_chain_state(db').most_work_tip = tasks[t].block.id]_vars

\* C18: FDBChainStore::new on a store that is already initialized writes
\* nothing: NEXT_ID_KEY, ChainState, every record and every hash index entry
\* are the same before and after.
C18_ReopenChangesNothing ==
    [][(Len(openLog') > Len(openLog) /\ db.state # NoValue) => db' = db]_vars

\* the store was opened again after an insert had committed
C18_Witness ==
    \E n \in DOMAIN openLog :
        /\ openLog[n] # None
        /\ openLog[n][1] >= 2
        /\ db.nextid >= 2

\* C19: the first open of an empty store leaves ChainState {0, [0], [], []},
\* NEXT_ID_KEY 1, the genesis record (id 0, height 0, size 285, validity Valid)
\* at id 0 and the genesis hash mapped to id 0; no committed state has
\* STATE_KEY without NEXT_ID_KEY, the genesis record and its index entry.
C19_OpenInitializesAtOnce ==
    /\ (Len(openLog) > 0 /\ Len(allocLog) = 0) =>
          /\ get_chain_state(db) =
                 [most_work_tip |-> 0, active_tips |-> <<0>>,
                  dormant_tips |-> <<>>, invalid_tips |-> <<>>]
          /\ db.nextid = 1
          /\ LET g == sub_block_info_by_hash(db, GenesisHash)
             IN /\ g # NoValue
                /\ g.id = 0 /\ g.height = 0 /\ g.size = Some(285)
                /\ g.validity = "Valid"
          /\ DOMAIN db.infos = {0}
          /\ db.infos[0].hash = GenesisHash
    /\ db.state # NoValue =>
          /\ db.nextid # NoId
          /\ 0 \in DOMAIN db.infos
          /\ GenesisHash \in DOMAIN db.hindex

\* an empty store has just been opened for the first time
C19_Witness ==
    /\ Len(openLog) = 1
    /\ openLog[1] = None
    /\ db.state # NoValue
    /\ ncalls = 0

\* the attributes of the stored parent (hash 1) in SpecOps: any validity,
\* figures present or absent
ParentAttrChoices ==
    {[height |-> 0, prev_id |-> 0, size |-> sz, num_tx |-> nt,
      chain_work |-> Some(ChainWorkOf(1)), total_tx |-> None,
      total_size |-> None, validity |-> v] :
        sz \in {None, Some(215)}, nt \in {None, Some(1)}, v \in BlockValidity}

\* the attributes of the candidate in SpecOps: any validity, figures and
\* totals present or absent, arbitrary placeholders for height and prev_id
CandidateAttrChoices(h) ==
    {[height |-> hp[1], prev_id |-> hp[2], size |-> sz, num_tx |-> nt,
      chain_work |-> Some(ChainWorkOf(h)), total_tx |-> tt,
      total_size |-> ts, validity |-> v] :
        hp \in {<<0, 0>>, <<9, 15>>},
        sz \in {None, Some(215)}, nt \in {None, Some(1)},
        ts \in {None, Some(7)}, tt \in {None, Some(7)},
        v \in BlockValidity}

\* the store after ensure_db_initialized and one committed store_block_info of
\* hash 1 with attributes pa, which got id 1 under the genesis record
StoreWithParent(pa) ==
    LET d0 == ensure_db_initialized(EmptyDb)
        g0 == decode_block_info(d0.infos[0])
        g == add_child(g0, 1)
        parent == [update_block(CandidateWith(1, <<>>, pa), g0)
                      EXCEPT !.id = 1]
    IN set_h_index([d0 EXCEPT !.nextid = 2,
                              !.infos = Put(Put(@, 0, encode_block_info(g)),
                                            1, encode_block_info(parent))],
                   1, 1)

\* SpecOps: one store_block_info(hash 3) with drawn attributes on a store that
\* holds a parent with drawn attributes
InitOps ==
    /\ \E pa \in ParentAttrChoices : db = StoreWithParent(pa)
    /\ \E a \in CandidateAttrChoices(3) :
          tasks = [t \in Tasks |->
                     IF t = 1
                     THEN [IdleTask EXCEPT !.pc = "hash",
                                           !.block = CandidateWith(3, <<>>, a),
                                           !.cand = CandidateWith(3, <<>>, a),
                                           !.parentStored = TRUE]
                     ELSE IdleTask]
    /\ next_id_lock = 0
    /\ ncalls = 2
    /\ allocLog = <<1>>
    /\ openLog = <<None>>
    /\ ActorStarted
    /\ sync = IdleSync
    /\ archive = IdleArchive
    /\ cli = IdleCli

NextOps ==
    \/ \E t \in Tasks : task_get_block_id_from_hash(t)
    \/ \E t \in Tasks : task_lock_next_id(t)
    \/ \E t \in Tasks : task_get_next_id(t)
    \/ \E t \in Tasks : task_sub_block_info_by_hash(t)
    \/ \E t \in Tasks : task_commit(t)

SpecOps == InitOps /\ [][NextOps]_vars

\* the record stored for the block that the call of slot 1 returned
StoredBlock == decode_block_info(db.infos[tasks[1].block.id])

\* the stored record of the parent of the block that slot 1 returned
StoredParent == decode_block_info(db.infos[StoredBlock.prev_id])

C20_TotalsFromParent ==
    ReturnedOk(1) =>
        LET p == StoredParent
            c == tasks[1].cand
            b == StoredBlock
        IN /\ b.total_size =
                 IF p.total_size # None /\ c.size # None
                 THEN Some(p.total_size[1] + c.size[1]) ELSE None
           /\ b.total_tx =
                 IF p.total_tx # None /\ c.num_tx # None
                 THEN Some(p.total_tx[1] + c.num_tx[1]) ELSE None

\* ------------------------------------------------------- handle and actor
\* requests made through the handles in one behaviour
MaxRequests == 3

\* transaction_too_old errors (code 1007) one ancestor walk meets
MaxResets == 1

\* largest max_blocks a caller passes to get_block_infos
MaxBlocks == 2

\* a request: kind is the FDBChainStoreMessage variant, id its block id or
\* hash, max its max_blocks; pc is where the request is (queued in the
\* command channel, task: its spawned task runs, walk: its ancestor walk runs,
\* done); result is what the caller's future returned ("none" while pending)
\* and value the Option<BlockInfo> of a BlockInfoReply; slot is the store task
\* of a StoreBlockInfo; cur, x, started, view and resets are the walk's id, x,
\* transaction and the 1007 errors it met; out is the stream's channel, closed
\* whether its sender was dropped, items what the caller took from the
\* stream, ended whether poll_next returned None; late records whether the
\* request was sent after a shutdown() had returned Ok, early whether the
\* actor received it before it received Shutdown, stored whether a record
\* of id was committed when the call was made, and detached whether its task
\* was still running when run returned and dropped its JoinHandle.
NewRequest(kind, id, max) ==
    [kind |-> kind, id |-> id, max |-> max, pc |-> "queued",
     result |-> "none", value |-> None, slot |-> 0,
     cur |-> id, x |-> 0, started |-> FALSE, view |-> EmptyDb, resets |-> 0,
     out |-> <<>>, closed |-> FALSE, items |-> <<>>, ended |-> FALSE,
     late |-> \E i \in DOMAIN requests :
                 requests[i].kind = "Shutdown" /\ requests[i].result = "Ok",
     early |-> FALSE,
     stored |-> id \in DOMAIN db.infos,
     detached |-> FALSE, failed |-> FALSE]

\* a request whose future still owns a clone of the sender
HoldsSender(r) == r.kind # "Shutdown" /\ r.result = "none"

\* every sender of the command channel has been dropped
ChannelClosed ==
    /\ handles = 0
    /\ \A i \in DOMAIN requests : ~HoldsSender(requests[i])

\* sender.send((msg, tx)).await followed by rx.await: the message is queued,
\* or the send fails at once because the receiver was dropped
sender_send(kind, id, max) ==
    /\ handles > 0
    /\ Len(requests) < MaxRequests
    /\ IF actor = "exited"
       THEN /\ requests' = Append(requests,
                   [NewRequest(kind, id, max) EXCEPT !.pc = "done",
                                                    !.result = "SendError"])
            /\ UNCHANGED receiver
       ELSE /\ requests' = Append(requests, NewRequest(kind, id, max))
            /\ receiver' = Append(receiver, Len(requests) + 1)
    /\ UNCHANGED <<handles, actor>>
    /\ UNCHANGED storeVars
    /\ UNCHANGED toolVars

\* a call made through a handle by a caller other than the synchronizer
send(kind, id, max) == sender_send(kind, id, max) /\ UNCHANGED sync

\* FDBChainStore::get_block_infos(db_id, max_blocks)
get_block_infos(db_id, max_blocks) == send("BlockInfos", db_id, max_blocks)

\* what get_block_infos returns for the reply it received
block_infos_result_as_block_info(reply) ==
    IF reply = "BlockInfoReply" THEN "Ok"
    ELSE IF reply = "dropped" THEN "OneshotRecvError"
    ELSE "Internal"

block_infos_result(reply) ==
    IF reply = "BlockInfosReply" THEN "Ok"
    ELSE IF reply = "dropped" THEN "OneshotRecvError"
    ELSE "Internal"

\* x >= num_blocks, where num_blocks is max_blocks.unwrap_or(u64::MAX): x
\* counts delivered records and stays below u64::MAX
reached_num_blocks(x, max_blocks) == max_blocks # None /\ x >= max_blocks[1]

\* the end of the walk's task: its transaction and the stream's sender are
\* dropped
end_walk(r) ==
    [r EXCEPT !.pc = "done", !.closed = TRUE, !.started = FALSE,
              !.view = EmptyDb]

\* one iteration of the loop of the walk with the height test on the next
\* record
get_block_infos_step_stops_early(r, d) ==
    LET v == IF r.started THEN r.view ELSE d IN
    IF r.cur \notin DOMAIN v.infos THEN end_walk(r)
    ELSE LET b_info == decode_block_info(v.infos[r.cur])
             r1 == [r EXCEPT !.started = TRUE, !.view = v,
                             !.cur = b_info.prev_id,
                             !.out = Append(@, b_info), !.x = @ + 1]
         IN IF reached_num_blocks(r1.x, r.max) \/ b_info.height <= 1
            THEN end_walk(r1) ELSE r1

\* one iteration of the loop of the walk on database d: the record of cur is
\* read in the walk's transaction; a missing record ends the walk; a record
\* is sent on the stream and the walk moves to its prev_id, until x reaches
\* num_blocks or the record has height 0
get_block_infos_step(r, d) ==
    LET v == IF r.started THEN r.view ELSE d IN
    IF r.cur \notin DOMAIN v.infos THEN end_walk(r)
    ELSE LET b_info == decode_block_info(v.infos[r.cur])
             r1 == [r EXCEPT !.started = TRUE, !.view = v,
                             !.cur = b_info.prev_id,
                             !.out = Append(@, b_info), !.x = @ + 1]
         IN IF reached_num_blocks(r1.x, r.max) \/ b_info.height = 0
            THEN end_walk(r1) ELSE r1

\* the actor receives a BlockInfos message: it replies BlockInfosReply and
\* spawns the walk
run_recv_block_infos ==
    /\ actor = "select"
    /\ receiver # <<>>
    /\ requests[Head(receiver)].kind = "BlockInfos"
    /\ receiver' = Tail(receiver)
    /\ requests' = [requests EXCEPT ![Head(receiver)] =
           [@ EXCEPT !.pc = "walk", !.early = TRUE,
                     !.result = block_infos_result("BlockInfosReply")]]
    /\ UNCHANGED <<handles, actor, sync>>
    /\ UNCHANGED storeVars
    /\ UNCHANGED toolVars

\* the walk of request i runs one iteration
task_get_block_infos(i) ==
    /\ i \in DOMAIN requests
    /\ requests[i].pc = "walk"
    /\ requests' = [requests EXCEPT ![i] = get_block_infos_step(@, db)]
    /\ UNCHANGED <<handles, receiver, actor, sync>>
    /\ UNCHANGED storeVars
    /\ UNCHANGED toolVars

\* the 1007 arm with the walk taken up again at the id of the call
trx_reset_restarts_walk(r) ==
    [r EXCEPT !.started = FALSE, !.view = EmptyDb, !.resets = @ + 1,
              !.cur = r.id]

\* the 1007 arm of the walk: trx.reset(); id and x are left as they are
trx_reset(r) ==
    [r EXCEPT !.started = FALSE, !.view = EmptyDb, !.resets = @ + 1]

\* the get of the walk of request i fails with code 1007 (transaction too
\* old): trx.reset() and the loop continues with the same id
task_get_block_infos_too_old(i) ==
    /\ i \in DOMAIN requests
    /\ requests[i].pc = "walk"
    /\ requests[i].started
    /\ requests[i].resets < MaxResets
    /\ requests' = [requests EXCEPT ![i] = trx_reset(@)]
    /\ UNCHANGED <<handles, receiver, actor, sync>>
    /\ UNCHANGED storeVars
    /\ UNCHANGED toolVars

\* the get of the walk of request i fails with another code: the loop breaks
task_get_block_infos_kv_error(i) ==
    /\ i \in DOMAIN requests
    /\ requests[i].pc = "walk"
    /\ requests' = [requests EXCEPT ![i] = [end_walk(@) EXCEPT !.failed = TRUE]]
    /\ UNCHANGED <<handles, receiver, actor, sync>>
    /\ UNCHANGED storeVars
    /\ UNCHANGED toolVars

\* BlockInfoStreamFromChannel::poll_next on the stream of request i: the next
\* record, or None once the sender was dropped and the channel is empty
poll_next(i) ==
    /\ i \in DOMAIN requests
    /\ requests[i].kind = "BlockInfos"
    /\ requests[i].result = "Ok"
    /\ ~requests[i].ended
    /\ \/ /\ requests[i].out # <<>>
          /\ requests' = [requests EXCEPT ![i] =
                 [@ EXCEPT !.items = Append(@, Head(requests[i].out)),
                           !.out = Tail(@)]]
       \/ /\ requests[i].out = <<>>
          /\ requests[i].closed
          /\ requests' = [requests EXCEPT ![i].ended = TRUE]
    /\ UNCHANGED <<handles, receiver, actor, sync>>
    /\ UNCHANGED storeVars
    /\ UNCHANGED toolVars

\* the ids and max_blocks callers pass to get_block_infos: every id that can
\* be stored, one that never is, and every max_blocks up to MaxBlocks or none
StreamIds == 0..(NumHashes + 1)
StreamMaxBlocks == {None} \cup {Some(n) : n \in 0..MaxBlocks}

\* SpecStream: one get_block_infos on a store that sequential
\* store_block_info calls keep extending
InitStream ==
    /\ db = ensure_db_initialized(EmptyDb)
    /\ tasks = [t \in Tasks |-> IdleTask]
    /\ next_id_lock = 0
    /\ ncalls = 0
    /\ allocLog = <<>>
    /\ openLog = <<None>>
    /\ ActorStarted
    /\ sync = IdleSync
    /\ archive = IdleArchive
    /\ cli = IdleCli

NextStream ==
    \/ \E h \in Hashes : \E nx \in CandidateNextIds(h) :
          store_block_info_attrs(h, nx, FreshAttrs)
    \/ \E t \in Tasks : task_get_block_id_from_hash(t)
    \/ \E t \in Tasks : task_lock_next_id(t)
    \/ \E t \in Tasks : task_get_next_id(t)
    \/ \E t \in Tasks : task_sub_block_info_by_hash(t)
    \/ \E t \in Tasks : task_commit(t)
    \/ \E id \in StreamIds : \E m \in StreamMaxBlocks :
          requests = <<>> /\ get_block_infos(id, m)
    \/ run_recv_block_infos
    \/ \E i \in 1..MaxRequests : task_get_block_infos(i)
    \/ \E i \in 1..MaxRequests : task_get_block_infos_too_old(i)
    \/ \E i \in 1..MaxRequests : poll_next(i)

SpecStream == InitStream /\ [][NextStream]_vars

\* the requests of kind BlockInfos whose stream the caller has read to its end
EndedStreams ==
    {i \in DOMAIN requests :
        requests[i].kind = "BlockInfos" /\ requests[i].ended}

\* C21: get_block_infos(id, Some(n)) delivers at most n BlockInfos on its
\* stream, for every n >= 0 and every stored id.
C21_AtMostMaxBlocks ==
    \A i \in DOMAIN requests :
        (requests[i].kind = "BlockInfos" /\ requests[i].max # None) =>
            Len(requests[i].items) + Len(requests[i].out)
                <= requests[i].max[1]

\* C22: get_block_infos(id, None) for a stored block of height h delivers
\* exactly h + 1 records and then closes the stream: the first record has the
\* given id, each later record's id is the previous record's prev_id, heights
\* decrease by one and the last record has height 0.
C22_StreamWalksToGenesis ==
    \A i \in DOMAIN requests :
        (requests[i].kind = "BlockInfos" /\ requests[i].max = None
            /\ requests[i].stored) =>
            LET it == requests[i].items
                h == decode_block_info(db.infos[requests[i].id]).height
            IN /\ Len(it) + Len(requests[i].out) <= h + 1
               /\ \A k \in DOMAIN it :
                     IF k = 1 THEN it[k].id = requests[i].id
                     ELSE /\ it[k].id = it[k - 1].prev_id
                          /\ it[k].height = it[k - 1].height - 1
               /\ requests[i].ended =>
                     /\ Len(it) = h + 1
                     /\ it[Len(it)].height = 0

\* the stream of a block of height 2 was read to its end and gave 3 records,
\* across a transaction reset
C22_Witness ==
    \E i \in EndedStreams :
        /\ requests[i].max = None
        /\ requests[i].stored
        /\ requests[i].resets = 1
        /\ Len(requests[i].items) = 3

\* C23: get_block_infos on an id that has no stored record returns Ok with a
\* stream that closes without delivering any item; a missing record ends the
\* stream and is never reported to the caller as an error.
C23_MissingRecordClosesStream ==
    \A i \in DOMAIN requests :
        requests[i].kind = "BlockInfos" =>
            /\ requests[i].result \in {"none", "Ok"}
            /\ (requests[i].pc = "done"
                    /\ requests[i].id \notin DOMAIN db.infos) =>
                  /\ requests[i].result = "Ok"
                  /\ requests[i].closed
                  /\ requests[i].items = <<>>
                  /\ requests[i].out = <<>>

\* the caller of get_block_infos on an id without record got Ok and read the
\* end of the stream as its first poll
C23_Witness ==
    \E i \in EndedStreams :
        /\ requests[i].id \notin DOMAIN db.infos
        /\ requests[i].result = "Ok"
        /\ requests[i].items = <<>>

\* SpecStreamErrors: SpecStream with gets of the walk that fail with a code
\* other than 1007
NextStreamErrors ==
    \/ NextStream
    \/ \E i \in 1..MaxRequests : task_get_block_infos_kv_error(i)

SpecStreamErrors == InitStream /\ [][NextStreamErrors]_vars

\* the records the walk of request r sends when every get succeeds, on
\* database d
RECURSIVE WalkOut(_, _)
WalkOut(r, d) ==
    IF r.pc = "done" THEN r.out ELSE WalkOut(get_block_infos_step(r, d), d)

\* the ids of the records that get_block_infos of request r delivers when no
\* get fails
NoFailureIds(r) ==
    LET out == WalkOut([r EXCEPT !.pc = "walk", !.cur = r.id, !.x = 0,
                                 !.out = <<>>, !.started = FALSE,
                                 !.view = EmptyDb, !.closed = FALSE], db)
    IN [k \in DOMAIN out |-> out[k].id]

\* the ids of the records the caller of request i has read
ItemIds(i) == [k \in DOMAIN requests[i].items |-> requests[i].items[k].id]

\* C37: in the ancestor stream a get that fails with code 1007 resets the
\* transaction and retries the same id: for any number of such failures at
\* any points of the walk the ids delivered are the ids delivered with no
\* failure, none skipped and none twice; any other KV error ends the stream,
\* which has then delivered the first ids of that sequence.
C37_ResetKeepsSequence ==
    \A i \in DOMAIN requests :
        requests[i].kind = "BlockInfos" =>
            /\ requests[i].failed => requests[i].closed
            /\ (requests[i].ended /\ requests[i].resets > 0
                    /\ ~requests[i].failed) =>
                  ItemIds(i) = NoFailureIds(requests[i])
            /\ (requests[i].ended /\ requests[i].failed) =>
                  /\ Len(ItemIds(i)) <= Len(NoFailureIds(requests[i]))
                  /\ ItemIds(i) = SubSeq(NoFailureIds(requests[i]), 1,
                                         Len(ItemIds(i)))

\* a stream limited to MaxBlocks records was read to its end and gave them,
\* across a transaction reset and without another error
C37_Witness ==
    \E i \in EndedStreams :
        /\ requests[i].max = Some(MaxBlocks)
        /\ requests[i].resets = MaxResets
        /\ ~requests[i].failed
        /\ Len(requests[i].items) = MaxBlocks

\* ------------------------------------------------- requests and shutdown
\* handles alive at the same time
MaxHandles == 2

\* FDBChainStore::get_block_info(db_id)
get_block_info(db_id) == send("BlockInfo", db_id, None)

\* FDBChainStore::shutdown()
shutdown == send("Shutdown", 0, None)

\* FDBChainStore::store_block_info through the command channel, for the
\* header with hash h
send_store_block_info(h) == send("StoreBlockInfo", h, None)

\* FDBChainStore::clone
clone ==
    /\ handles > 0
    /\ handles < MaxHandles
    /\ handles' = handles + 1
    /\ UNCHANGED <<receiver, actor, requests, sync>>
    /\ UNCHANGED storeVars
    /\ UNCHANGED toolVars

\* a handle is dropped; a handle whose shutdown() is pending is borrowed and
\* cannot be dropped
drop_handle ==
    /\ handles > 0
    /\ \A i \in DOMAIN requests :
          ~(requests[i].kind = "Shutdown" /\ requests[i].result = "none")
    /\ handles' = handles - 1
    /\ UNCHANGED <<receiver, actor, requests, sync>>
    /\ UNCHANGED storeVars
    /\ UNCHANGED toolVars

\* what get_block_info returns for the reply it received, with the match of
\* store_block_info
block_info_result_some_only(reply, r) ==
    IF reply = "BlockInfoReply" /\ r # None THEN "Ok"
    ELSE IF reply = "dropped" THEN "OneshotRecvError"
    ELSE "Internal"

\* what get_block_info returns for the reply it received: Ok(r) for
\* BlockInfoReply(r)
block_info_result(reply, r) ==
    IF reply = "BlockInfoReply" THEN "Ok"
    ELSE IF reply = "dropped" THEN "OneshotRecvError"
    ELSE "Internal"

\* the Shutdown arm of run without its break
after_shutdown_no_break == "select"

\* the Shutdown arm of run: after the reply the loop is left
after_shutdown == "exiting"

\* the JoinHandles of run are dropped and the tasks aborted with them
drop_join_handles_aborts(rs) ==
    [i \in DOMAIN rs |->
        IF rs[i].pc \in {"task", "walk"}
        THEN [rs[i] EXCEPT !.pc = "done", !.closed = TRUE,
                 !.result = IF @ = "none" THEN "OneshotRecvError" ELSE @]
        ELSE rs[i]]

\* the JoinHandles collected by run are dropped when run returns: a dropped
\* JoinHandle detaches its task, which keeps running
drop_join_handles(rs) ==
    [i \in DOMAIN rs |->
        IF rs[i].pc \in {"task", "walk"}
        THEN [rs[i] EXCEPT !.detached = TRUE]
        ELSE rs[i]]

\* the receiver is dropped and the messages still queued stay as they are
drop_receiver_keeps_messages(rs) == rs

\* the receiver is dropped with the messages still queued: their reply
\* senders are dropped and their callers get a RecvError
drop_receiver(rs) ==
    [i \in DOMAIN rs |->
        IF rs[i].pc = "queued"
        THEN [rs[i] EXCEPT !.pc = "done", !.result = "OneshotRecvError"]
        ELSE rs[i]]

\* the actor receives a BlockInfo message and spawns its task
run_recv_block_info ==
    /\ actor = "select"
    /\ receiver # <<>>
    /\ requests[Head(receiver)].kind = "BlockInfo"
    /\ receiver' = Tail(receiver)
    /\ requests' = [requests EXCEPT ![Head(receiver)] =
           [@ EXCEPT !.pc = "task", !.early = TRUE]]
    /\ UNCHANGED <<handles, actor, sync>>
    /\ UNCHANGED storeVars
    /\ UNCHANGED toolVars

\* the actor receives a StoreBlockInfo message and spawns its task in the
\* next task slot
run_recv_store_block_info ==
    /\ actor = "select"
    /\ receiver # <<>>
    /\ requests[Head(receiver)].kind = "StoreBlockInfo"
    /\ ncalls < MaxTasks
    /\ receiver' = Tail(receiver)
    /\ requests' = [requests EXCEPT ![Head(receiver)] =
           [@ EXCEPT !.pc = "task", !.early = TRUE, !.slot = ncalls + 1]]
    /\ ncalls' = ncalls + 1
    /\ tasks' = [tasks EXCEPT ![ncalls + 1] =
          LET h == requests[Head(receiver)].id IN
          [IdleTask EXCEPT !.pc = "hash", !.block = Candidate(h, <<>>),
              !.cand = Candidate(h, <<>>),
              !.parentStored = PrevHash(h) \in DOMAIN db.hindex]]
    /\ UNCHANGED <<handles, actor, sync>>
    /\ UNCHANGED <<db, next_id_lock, allocLog, openLog>>
    /\ UNCHANGED toolVars

\* the actor receives Shutdown: it replies Done and breaks out of the loop
run_recv_shutdown ==
    /\ actor = "select"
    /\ receiver # <<>>
    /\ requests[Head(receiver)].kind = "Shutdown"
    /\ receiver' = Tail(receiver)
    /\ requests' = [requests EXCEPT ![Head(receiver)] =
           [@ EXCEPT !.pc = "done", !.result = "Ok"]]
    /\ actor' = after_shutdown
    /\ UNCHANGED <<handles, sync>>
    /\ UNCHANGED storeVars
    /\ UNCHANGED toolVars

\* run returns: the JoinHandles and the actor, with its receiver, are dropped
run_return ==
    /\ actor = "exiting"
    /\ actor' = "exited"
    /\ receiver' = <<>>
    /\ requests' = drop_join_handles(drop_receiver(requests))
    /\ UNCHANGED <<handles, sync>>
    /\ UNCHANGED storeVars
    /\ UNCHANGED toolVars

\* the else arm of select!: recv() returned None because the channel is
\* closed and empty; the actor sleeps 100 ms
run_else ==
    /\ actor = "select"
    /\ receiver = <<>>
    /\ ChannelClosed
    /\ actor' = "sleep"
    /\ UNCHANGED <<handles, receiver, requests, sync>>
    /\ UNCHANGED storeVars
    /\ UNCHANGED toolVars

\* the sleep of the else arm is over and the loop goes on
run_loop ==
    /\ actor = "sleep"
    /\ actor' = "select"
    /\ UNCHANGED <<handles, receiver, requests, sync>>
    /\ UNCHANGED storeVars
    /\ UNCHANGED toolVars

\* the task of get_block_info of request i: one get in its own transaction,
\* then the reply
task_get_block_info(i) ==
    /\ i \in DOMAIN requests
    /\ requests[i].pc = "task"
    /\ requests[i].kind = "BlockInfo"
    /\ LET r == IF requests[i].id \in DOMAIN db.infos
                THEN Some(decode_block_info(db.infos[requests[i].id]))
                ELSE None
       IN requests' = [requests EXCEPT ![i] =
              [@ EXCEPT !.pc = "done", !.value = r,
                        !.result = block_info_result("BlockInfoReply", r)]]
    /\ UNCHANGED <<handles, receiver, actor, sync>>
    /\ UNCHANGED storeVars
    /\ UNCHANGED toolVars

\* the caller of the store_block_info of request i receives what became of
\* the reply sender of its task
store_block_info_returns(i) ==
    /\ i \in DOMAIN requests
    /\ requests[i].pc = "task"
    /\ requests[i].kind = "StoreBlockInfo"
    /\ Done(requests[i].slot)
    /\ requests' = [requests EXCEPT ![i] =
           [@ EXCEPT !.pc = "done",
                     !.result = caller_result(tasks[requests[i].slot].reply)]]
    /\ UNCHANGED <<handles, receiver, actor, sync>>
    /\ UNCHANGED storeVars
    /\ UNCHANGED toolVars

\* the ids callers pass to get_block_info: the genesis id, the id a store
\* gets, and an id that is never stored
BlockInfoIds == {0, 1, NumHashes + 1}

\* SpecActor: get_block_info calls, one store_block_info of a child of
\* genesis, shutdown, and handles cloned and dropped
InitActor ==
    /\ db = ensure_db_initialized(EmptyDb)
    /\ tasks = [t \in Tasks |-> IdleTask]
    /\ next_id_lock = 0
    /\ ncalls = 0
    /\ allocLog = <<>>
    /\ openLog = <<None>>
    /\ ActorStarted
    /\ sync = IdleSync
    /\ archive = IdleArchive
    /\ cli = IdleCli

\* the steps of the actor
RunSteps ==
    \/ run_recv_block_info
    \/ run_recv_store_block_info
    \/ run_recv_shutdown
    \/ run_return
    \/ run_else
    \/ run_loop

\* the steps of the spawned tasks and of the callers' futures
TaskSteps ==
    \/ \E i \in 1..MaxRequests : task_get_block_info(i)
    \/ \E i \in 1..MaxRequests : store_block_info_returns(i)
    \/ \E t \in Tasks : task_get_block_id_from_hash(t)
    \/ \E t \in Tasks : task_lock_next_id(t)
    \/ \E t \in Tasks : task_get_next_id(t)
    \/ \E t \in Tasks : task_sub_block_info_by_hash(t)
    \/ \E t \in Tasks : task_commit(t)

NextActor ==
    \/ \E id \in BlockInfoIds :
          /\ \A i \in DOMAIN requests :
                ~(requests[i].kind = "BlockInfo" /\ requests[i].id = id)
          /\ get_block_info(id)
    \/ /\ \A i \in DOMAIN requests : requests[i].kind # "StoreBlockInfo"
       /\ send_store_block_info(1)
    \/ shutdown
    \/ clone
    \/ drop_handle
    \/ RunSteps
    \/ TaskSteps

SpecActor == InitActor /\ [][NextActor]_vars

\* the scheduler runs every task that can run: the actor and each spawned task
FairActor == SpecActor /\ WF_vars(RunSteps) /\ WF_vars(TaskSteps)

\* the caller of request i has its result
Returned(i) == i \in DOMAIN requests /\ requests[i].result # "none"

\* the results that are errors
ErrorResults == {"SendError", "OneshotRecvError", "Internal"}

\* C24: shutdown() makes the actor reply Done and leave its loop, so that run
\* returns; every request sent after a shutdown() has returned gets an error
\* and none stays pending forever.
C24_ShutdownStopsActor ==
    /\ [](\A i \in DOMAIN requests :
            /\ (requests[i].late /\ Returned(i))
                   => requests[i].result \in ErrorResults
            /\ (requests[i].kind = "Shutdown" /\ requests[i].result = "Ok")
                   => actor \in {"exiting", "exited"})
    /\ [](actor \in {"exiting", "exited"} =>
             \E i \in DOMAIN requests :
                 requests[i].kind = "Shutdown" /\ requests[i].result = "Ok")
    /\ \A i \in 1..MaxRequests :
          /\ (i \in DOMAIN requests /\ requests[i].kind = "Shutdown")
                 ~> (actor = "exited")
          /\ (i \in DOMAIN requests /\ requests[i].late) ~> Returned(i)

\* after a shutdown() that returned Ok, one request failed in send and
\* another, queued before run returned, lost its reply sender
C24_Witness ==
    /\ actor = "exited"
    /\ \E i, j \in DOMAIN requests :
          /\ requests[i].late /\ requests[i].result = "SendError"
          /\ requests[j].late /\ requests[j].result = "OneshotRecvError"

\* C25: a request the actor received before it received Shutdown is not
\* cancelled by the shutdown: its task runs to completion (the store commits,
\* the read replies) and its caller gets the reply although run has returned.
C25_InFlightTasksComplete ==
    /\ [](\A i \in DOMAIN requests :
            (requests[i].early /\ Returned(i)) =>
                /\ requests[i].result = "Ok"
                /\ requests[i].kind = "StoreBlockInfo" =>
                      /\ requests[i].id \in DOMAIN db.hindex
                      /\ tasks[requests[i].slot].reply = "BlockInfoReply")
    /\ \A i \in 1..MaxRequests :
          (i \in DOMAIN requests /\ requests[i].early)
              ~> (Returned(i) /\ requests[i].pc = "done")

\* a store and a read whose tasks were running when run returned have both
\* replied Ok, and the store is committed
C25_Witness ==
    /\ actor = "exited"
    /\ \E i, j \in DOMAIN requests :
          /\ requests[i].kind = "StoreBlockInfo"
          /\ requests[i].detached /\ requests[i].result = "Ok"
          /\ requests[i].id \in DOMAIN db.hindex
          /\ requests[j].kind = "BlockInfo"
          /\ requests[j].detached /\ requests[j].result = "Ok"

\* C26: when every handle has been dropped and shutdown was never called, the
\* command channel is closed and the actor eventually leaves its loop and
\* terminates.
C26_DroppedHandlesStopActor ==
    (handles = 0 /\ \A i \in DOMAIN requests : requests[i].kind # "Shutdown")
        ~> (actor = "exited")

\* C27: get_block_info calls on distinct ids issued concurrently through one
\* handle all return Ok, Some(record) for a stored id and None for an absent
\* one, under every interleaving of their tasks.
C27_ConcurrentReadsReturnOk ==
    \A i \in DOMAIN requests :
        (requests[i].kind = "BlockInfo" /\ requests[i].early
            /\ Returned(i)) =>
            /\ requests[i].result = "Ok"
            /\ requests[i].stored => requests[i].value # None
            /\ requests[i].id \notin DOMAIN db.infos
                  => requests[i].value = None
            /\ requests[i].value # None
                  => requests[i].value[1].id = requests[i].id

\* of three get_block_info calls whose tasks ran together, one returned
\* Ok(None), one Ok(Some(genesis)) and one is still running
C27_Witness ==
    \E i, j, k \in DOMAIN requests :
        /\ requests[i].kind = "BlockInfo" /\ requests[i].result = "Ok"
        /\ requests[i].value = None
        /\ requests[j].kind = "BlockInfo" /\ requests[j].result = "Ok"
        /\ requests[j].value # None
        /\ requests[k].kind = "BlockInfo" /\ requests[k].pc = "task"
        /\ k < i /\ k < j

\* ----------------------------------------------------------- synchronizer
\* capacity of the channel between stage1 and the loop of sync_piped
BUFFER_SIZE == 1000

\* the lists of hashes block_list() can yield: every order of every set of at
\* most MaxRequests hashes, the genesis hash among them
ArchiveLists ==
    {a \in UNION {[1..n -> {GenesisHash} \cup Hashes] : n \in 0..MaxRequests} :
        NoDuplicates(a)}

\* FDBChainStore::get_block_info_by_hash(block_hash), when its future is
\* first polled by the loop of sync_piped
get_block_info_by_hash(block_hash) ==
    sender_send("BlockInfoByHash", block_hash, None)

\* sync_piped up to tokio::spawn(f_stage1): the hashes of the archive are
\* collected and stage1 is given a clone of the handle
sync_piped_spawn_stage1 ==
    /\ sync.pc = "start"
    /\ handles' = handles + 1
    /\ sync' = [sync EXCEPT !.pc = "recv", !.stage1 = "run"]
    /\ UNCHANGED <<receiver, actor, requests>>
    /\ UNCHANGED storeVars
    /\ UNCHANGED toolVars

\* one iteration of stage1: the future of get_block_info_by_hash is created,
\* not polled, and sent with its hash when the channel has room
stage1_send ==
    /\ sync.stage1 = "run"
    /\ sync.sent < Len(sync.block_hashes)
    /\ Len(sync.chan) < BUFFER_SIZE
    /\ sync' = [sync EXCEPT !.sent = @ + 1,
                            !.chan = Append(@, sync.block_hashes[sync.sent + 1])]
    /\ UNCHANGED <<handles, receiver, actor, requests>>
    /\ UNCHANGED storeVars
    /\ UNCHANGED toolVars

\* stage1 returns Ok(()): its handle and its sender are dropped
stage1_return ==
    /\ sync.stage1 = "run"
    /\ sync.sent = Len(sync.block_hashes)
    /\ handles' = handles - 1
    /\ sync' = [sync EXCEPT !.stage1 = "done"]
    /\ UNCHANGED <<receiver, actor, requests>>
    /\ UNCHANGED storeVars
    /\ UNCHANGED toolVars

\* receiver.recv() yields (j, h) and j.await sends the BlockInfoByHash
\* message to the actor
sync_piped_recv ==
    /\ sync.pc = "recv"
    /\ sync.chan # <<>>
    /\ get_block_info_by_hash(Head(sync.chan))
    /\ sync' = [sync EXCEPT !.pc = "await", !.chan = Tail(@)]

\* j.await completes: the result k is not used and i is incremented
sync_piped_await ==
    /\ sync.pc = "await"
    /\ requests[Len(requests)].pc = "done"
    /\ sync' = [sync EXCEPT !.pc = "recv", !.i = @ + 1]
    /\ UNCHANGED <<handles, receiver, actor, requests>>
    /\ UNCHANGED storeVars
    /\ UNCHANGED toolVars

\* receiver.recv() yields None after stage1 dropped its sender: the loop
\* ends, j_stage1 is joined and sync_piped returns Ok(()), dropping its
\* handle and the JoinHandle of the actor
sync_piped_return ==
    /\ sync.pc = "recv"
    /\ sync.chan = <<>>
    /\ sync.stage1 = "done"
    /\ handles' = handles - 1
    /\ sync' = [sync EXCEPT !.pc = "done"]
    /\ UNCHANGED <<receiver, actor, requests>>
    /\ UNCHANGED storeVars
    /\ UNCHANGED toolVars

\* the actor receives a BlockInfoByHash message and spawns its task
run_recv_block_info_by_hash ==
    /\ actor = "select"
    /\ receiver # <<>>
    /\ requests[Head(receiver)].kind = "BlockInfoByHash"
    /\ receiver' = Tail(receiver)
    /\ requests' = [requests EXCEPT ![Head(receiver)] =
           [@ EXCEPT !.pc = "task", !.early = TRUE]]
    /\ UNCHANGED <<handles, actor, sync>>
    /\ UNCHANGED storeVars
    /\ UNCHANGED toolVars

\* the task of get_block_info_by_hash of request i: sub_block_info_by_hash
\* in its own transaction, then the reply
task_get_block_info_by_hash(i) ==
    /\ i \in DOMAIN requests
    /\ requests[i].pc = "task"
    /\ requests[i].kind = "BlockInfoByHash"
    /\ LET v == sub_block_info_by_hash(db, requests[i].id)
           r == IF v = NoValue THEN None ELSE Some(v)
       IN requests' = [requests EXCEPT ![i] =
              [@ EXCEPT !.pc = "done", !.value = r,
                        !.result = block_info_result("BlockInfoReply", r)]]
    /\ UNCHANGED <<handles, receiver, actor, sync>>
    /\ UNCHANGED storeVars
    /\ UNCHANGED toolVars

\* SpecSync: sync_piped on a store that holds the genesis block only, for
\* every list of hashes of the archive
InitSync ==
    /\ db = ensure_db_initialized(EmptyDb)
    /\ tasks = [t \in Tasks |-> IdleTask]
    /\ next_id_lock = 0
    /\ ncalls = 0
    /\ allocLog = <<>>
    /\ openLog = <<None>>
    /\ ActorStarted
    /\ \E a \in ArchiveLists :
          sync = [IdleSync EXCEPT !.pc = "start", !.block_hashes = a]
    /\ archive = IdleArchive
    /\ cli = IdleCli

NextSync ==
    \/ sync_piped_spawn_stage1
    \/ stage1_send
    \/ stage1_return
    \/ sync_piped_recv
    \/ sync_piped_await
    \/ sync_piped_return
    \/ run_recv_block_info_by_hash
    \/ \E i \in 1..MaxRequests : task_get_block_info_by_hash(i)
    \/ run_else
    \/ run_loop

SpecSync == InitSync /\ [][NextSync]_vars

\* the hashes of the blocks in the store
StoredHashes == {decode_block_info(db.infos[id]).hash : id \in DOMAIN db.infos}

\* the chain of parents of h reaches genesis through hashes of A
RECURSIVE ReachesGenesis(_, _)
ReachesGenesis(h, A) ==
    IF h = GenesisHash THEN TRUE
    ELSE h \in A /\ ReachesGenesis(PrevHash(h), A)

\* C28: given an archive A and a genesis-only store, when sync_piped has
\* finished the store contains exactly the genesis block plus every hash of A
\* whose chain of parents reaches genesis through hashes of A, and no block
\* of an orphan subgraph.
C28_StoreHoldsConnectedArchive ==
    sync.pc = "done" =>
        StoredHashes = {GenesisHash} \cup
            {h \in Range(sync.block_hashes) :
                ReachesGenesis(h, Range(sync.block_hashes))}

\* C29: during a sync store_block_info is called for a block only after its
\* parent is in the store, for every order of the archive's hashes, and the
\* topological drain has ended when the sync finishes: no stored block is
\* left with a child in the archive that was not stored.
C29_ParentsBeforeChildren ==
    /\ \A t \in Tasks : tasks[t].pc # "idle" => tasks[t].parentStored
    /\ sync.pc = "done" =>
          \A h \in Range(sync.block_hashes) :
              PrevHash(h) \in StoredHashes => h \in StoredHashes

\* ------------------------------------------------------------------ codec
\* the BlockInfos given to encode_block_info in SpecCodec: every combination
\* of present and absent optional fields, every validity, next_ids lists of
\* length 0 to 2, an empty and a non-empty chain_work
CodecInputs ==
    {[id |-> i, hash |-> 1, prev_hash |-> 0, height |-> hp[1],
      prev_id |-> hp[2], next_ids |-> nx, size |-> sz, num_tx |-> nt,
      chain_work |-> cw, total_tx |-> tt, total_size |-> ts,
      validity |-> v] :
        i \in {0, 7}, hp \in {<<0, 0>>, <<3, 2>>},
        nx \in {<<>>, <<1>>, <<2, 1>>},
        sz \in {None, Some(285)}, nt \in {None, Some(1)},
        cw \in {None, Some(<<>>), Some(GenesisChainWork)},
        tt \in {None, Some(2)}, ts \in {None, Some(500)},
        v \in BlockValidity}

\* SpecCodec: a BlockInfo b is encoded and written under its key, then read
\* and decoded
InitCodec ==
    /\ db = EmptyDb
    /\ \E b \in CodecInputs :
          tasks = [t \in Tasks |->
                     IF t = 1 THEN [IdleTask EXCEPT !.pc = "encode",
                                                    !.cand = b]
                     ELSE IdleTask]
    /\ next_id_lock = 0
    /\ ncalls = 0
    /\ allocLog = <<>>
    /\ openLog = <<>>
    /\ ActorStarted
    /\ sync = IdleSync
    /\ archive = IdleArchive
    /\ cli = IdleCli

\* trx.set(get_block_info_key(id), encode_block_info(b))
codec_encode ==
    /\ tasks[1].pc = "encode"
    /\ db' = [db EXCEPT !.infos =
                 Put(@, tasks[1].cand.id, encode_block_info(tasks[1].cand))]
    /\ tasks' = [tasks EXCEPT ![1].pc = "decode"]
    /\ UNCHANGED <<next_id_lock, ncalls, allocLog, openLog>>
    /\ UNCHANGED actorVars
    /\ UNCHANGED toolVars

\* decode_block_info of the value read under the key
codec_decode ==
    /\ tasks[1].pc = "decode"
    /\ tasks' = [tasks EXCEPT ![1] =
           [@ EXCEPT !.pc = "decoded",
                     !.block = decode_block_info(db.infos[tasks[1].cand.id])]]
    /\ UNCHANGED <<db, next_id_lock, ncalls, allocLog, openLog>>
    /\ UNCHANGED actorVars
    /\ UNCHANGED toolVars

NextCodec == codec_encode \/ codec_decode

SpecCodec == InitCodec /\ [][NextCodec]_vars

MaxTips == 2

\* a u64 as its eight big-endian bytes: 0, 2, 300, 2^63 - 1, 2^63, 2^64 - 1
U64Samples ==
    {<<0, 0, 0, 0, 0, 0, 0, 0>>, <<0, 0, 0, 0, 0, 0, 0, 2>>,
     <<0, 0, 0, 0, 0, 0, 1, 44>>,
     <<127, 255, 255, 255, 255, 255, 255, 255>>,
     <<128, 0, 0, 0, 0, 0, 0, 0>>,
     <<255, 255, 255, 255, 255, 255, 255, 255>>}

\* the significant bytes of a big-endian number
RECURSIVE strip_zeros(_)
strip_zeros(b) ==
    IF b = <<>> THEN <<>>
    ELSE IF Head(b) = 0 THEN strip_zeros(Tail(b)) ELSE b

\* the significant bytes extended to eight bytes
RECURSIVE pad8(_)
pad8(b) == IF Len(b) >= 8 THEN b ELSE pad8(<<0>> \o b)

\* pack of a u64: a non-negative integer of the tuple layer, its significant
\* bytes after the code that gives their number
pack_u64(v) == <<"int", strip_zeros(v)>>

\* unpack of a packed integer as u64
unpack_u64(p) == pad8(p[2])

\* unpack of a packed non-negative integer as Element: Element::Int holds an
\* i64, so an integer of 2^63 or more is not an Int (it is a BigInt, or the
\* unpack fails, with the features of the build)
unpack_element(p) ==
    IF pad8(p[2])[1] >= 128 THEN <<"BigInt", pad8(p[2])>>
    ELSE ElementInt(pad8(p[2]))

\* encode_chain_state: pack of (most_work_tip, &active_tips, &dormant_tips,
\* &invalid_tips), each list a nested tuple of u64
encode_chain_state(cs) ==
    [most_work_tip |-> pack_u64(cs.most_work_tip),
     active_tips |-> [i \in DOMAIN cs.active_tips |->
                         pack_u64(cs.active_tips[i])],
     dormant_tips |-> [i \in DOMAIN cs.dormant_tips |->
                          pack_u64(cs.dormant_tips[i])],
     invalid_tips |-> [i \in DOMAIN cs.invalid_tips |->
                          pack_u64(cs.invalid_tips[i])]]

\* decode_chain_state panics: the unpack fails, or as_i64() of an element of
\* a list is None and is unwrapped
decode_chain_state_panics(v) ==
    \E l \in {v.active_tips, v.dormant_tips, v.invalid_tips} :
        \E i \in DOMAIN l : as_i64(unpack_element(l[i])) = None

\* decode_chain_state: most_work_tip is unpacked as u64, every element of a
\* list through as_i64().unwrap() as u64 (the cast keeps the eight bytes)
decode_chain_state(v) ==
    [most_work_tip |-> unpack_u64(v.most_work_tip),
     active_tips |-> [i \in DOMAIN v.active_tips |->
                         as_i64(unpack_element(v.active_tips[i]))[1]],
     dormant_tips |-> [i \in DOMAIN v.dormant_tips |->
                          as_i64(unpack_element(v.dormant_tips[i]))[1]],
     invalid_tips |-> [i \in DOMAIN v.invalid_tips |->
                          as_i64(unpack_element(v.invalid_tips[i]))[1]]]

\* the ChainStates given to encode_chain_state in SpecStateCodec
StateCodecInputs ==
    {[most_work_tip |-> m, active_tips |-> a, dormant_tips |-> d,
      invalid_tips |-> i] :
        m \in U64Samples,
        a \in UNION {[1..n -> U64Samples] : n \in 0..MaxTips},
        d \in UNION {[1..n -> U64Samples] : n \in 0..1},
        i \in UNION {[1..n -> U64Samples] : n \in 0..1}}

\* SpecStateCodec: a ChainState s is encoded and written under STATE_KEY, then
\* read and decoded
InitStateCodec ==
    /\ db = EmptyDb
    /\ \E s \in StateCodecInputs :
          tasks = [t \in Tasks |->
                     IF t = 1 THEN [IdleTask EXCEPT !.pc = "encode_state",
                                                    !.cand = s]
                     ELSE IdleTask]
    /\ next_id_lock = 0
    /\ ncalls = 0
    /\ allocLog = <<>>
    /\ openLog = <<>>
    /\ ActorStarted
    /\ sync = IdleSync
    /\ archive = IdleArchive
    /\ cli = IdleCli

\* trx.set(get_state_key(), encode_chain_state(s))
chain_state_encode ==
    /\ tasks[1].pc = "encode_state"
    /\ db' = [db EXCEPT !.state = encode_chain_state(tasks[1].cand)]
    /\ tasks' = [tasks EXCEPT ![1].pc = "decode_state"]
    /\ UNCHANGED <<next_id_lock, ncalls, allocLog, openLog>>
    /\ UNCHANGED actorVars
    /\ UNCHANGED toolVars

\* decode_chain_state of the value read under STATE_KEY
chain_state_decode ==
    /\ tasks[1].pc = "decode_state"
    /\ IF decode_chain_state_panics(db.state)
       THEN tasks' = [tasks EXCEPT ![1] =
                [@ EXCEPT !.pc = "panicked", !.panic = "unwrap on None"]]
       ELSE tasks' = [tasks EXCEPT ![1] =
                [@ EXCEPT !.pc = "decoded",
                          !.block = decode_chain_state(db.state)]]
    /\ UNCHANGED <<db, next_id_lock, ncalls, allocLog, openLog>>
    /\ UNCHANGED actorVars
    /\ UNCHANGED toolVars

NextStateCodec == chain_state_encode \/ chain_state_decode

SpecStateCodec == InitStateCodec /\ [][NextStateCodec]_vars

\* C31: for every ChainState s (any u64 most_work_tip and any lists of u64
\* tip ids, including empty lists), decode_chain_state(encode_chain_state(s))
\* equals s: the decoding never panics and gives s back.
C31_StateDecodeEncodeIsIdentity ==
    /\ tasks[1].pc # "panicked"
    /\ tasks[1].pc = "decoded" => tasks[1].block = tasks[1].cand

\* ---------------------------------------------------------- block archive
\* number of block hashes of the archive
NumArchiveHashes == 2
\* number of files under root_path before the first call
MaxInitFiles == 1
\* number of files under root_path before the first call in SpecBlockList
MaxListedFiles == 2
\* number of calls on the archive
MaxArchiveCalls == 3

\* capacity of the channel of block_list
MAX_BLOCKS == 2000000

ArchiveHashes == 1..NumArchiveHashes

\* the contents of blocks: the first byte stands for the header
BlockBytes == {<<1>>, <<2, 2>>}

\* A file of the tree under root_path is [dir, stem, ext, bytes]: dir is the
\* list of directory names from root_path to the file, stem and ext are the
\* two parts of its name.  A stem that is the 64 hex characters of a hash is
\* [hash, upper]: the hash it decodes to and whether its letters are upper
\* case; any other stem has hash = NoId.

\* hash.encode_hex(): lower case
encode_hex(hash) == [hash |-> hash, upper |-> FALSE]

\* BlockHash::from_hex(f_name): the letters may have either case
from_hex(stem) == IF stem.hash = NoId THEN None ELSE Some(stem.hash)

\* characters 60..62 and 62..64 of the hex characters of a hash
hex_60_62(hash) == hash \div 2
hex_62_64(hash) == hash % 2

PathOf(f) == [dir |-> f.dir, stem |-> f.stem, ext |-> f.ext]

\* get_path_from_hash with the two directory levels exchanged
get_path_from_hash_levels_swapped(hash) ==
    [dir |-> <<hex_60_62(hash), hex_62_64(hash)>>,
     stem |-> encode_hex(hash), ext |-> "bin"]

\* get_path_from_hash: root_path/s[62..]/s[60..62]/s.bin for s = encode_hex
get_path_from_hash(hash) ==
    [dir |-> <<hex_62_64(hash), hex_60_62(hash)>>,
     stem |-> encode_hex(hash), ext |-> "bin"]

\* the files at a path
FileAt(files, path) == {f \in files : PathOf(f) = path}

\* the bytes of the file at a path
ReadFile(files, path) == (CHOOSE f \in FileAt(files, path) : TRUE).bytes

\* a write of data at offset 0 of a file that holds content
WriteFile(content, data) ==
    data \o SubSeq(content, Len(data) + 1, Len(content))

\* the file with the given bytes at a path, replacing the file that is there
PutFile(files, path, bytes) ==
    (files \ FileAt(files, path)) \cup
        {[dir |-> path.dir, stem |-> path.stem, ext |-> path.ext,
          bytes |-> bytes]}

\* a call on the archive; before is the file at the block's path when the
\* call was made
NewCall(op, hash, block) ==
    [op |-> op, hash |-> hash, block |-> block, pc |-> "start",
     result |-> "none", found |-> FALSE, value |-> <<>>,
     before |-> IF FileAt(archive.files, get_path_from_hash(hash)) = {}
                THEN None
                ELSE Some(ReadFile(archive.files, get_path_from_hash(hash)))]

\* a call is made on the archive
call(op, hash, block) ==
    /\ Len(archive.calls) < MaxArchiveCalls
    /\ archive' = [archive EXCEPT
                     !.calls = Append(@, NewCall(op, hash, block))]
    /\ UNCHANGED cli
    /\ UNCHANGED storeVars
    /\ UNCHANGED actorVars

\* the metadata of the block's path is found, without looking
metadata_found_never(files, hash) == FALSE

\* tokio::fs::metadata(get_path_from_hash(hash)) is Ok
metadata_found(files, hash) == FileAt(files, get_path_from_hash(hash)) # {}

\* the result of get_block, block_size and block_header for ErrorKind::NotFound
not_found == "BlockNotFound"

\* the call c returns
Return(c, result, found, value) ==
    /\ archive' = [archive EXCEPT !.calls[c] =
          [@ EXCEPT !.pc = "done", !.result = result, !.found = found,
                    !.value = value]]
    /\ UNCHANGED cli
    /\ UNCHANGED storeVars
    /\ UNCHANGED actorVars

\* a call c that has been made and has not returned is at pc
AtCall(c, op, pc) ==
    /\ c \in DOMAIN archive.calls
    /\ archive.calls[c].op = op
    /\ archive.calls[c].pc = pc

\* block_exists(block_hash)
block_exists(c) ==
    /\ AtCall(c, "block_exists", "start")
    /\ Return(c, "Ok", metadata_found(archive.files, archive.calls[c].hash),
              <<>>)

\* get_block(block_hash): the reader of the opened file gives its bytes
get_block(c) ==
    /\ AtCall(c, "get_block", "start")
    /\ LET h == archive.calls[c].hash IN
       IF metadata_found(archive.files, h)
       THEN Return(c, "Ok", TRUE,
                   ReadFile(archive.files, get_path_from_hash(h)))
       ELSE Return(c, not_found, FALSE, <<>>)

\* block_size(block_hash)
block_size(c) ==
    /\ AtCall(c, "block_size", "start")
    /\ LET h == archive.calls[c].hash IN
       IF metadata_found(archive.files, h)
       THEN Return(c, "Ok", TRUE,
                   <<Len(ReadFile(archive.files, get_path_from_hash(h)))>>)
       ELSE Return(c, not_found, FALSE, <<>>)

\* block_header(block_hash): BlockHeader::from_binary reads the header from
\* the start of the file
block_header(c) ==
    /\ AtCall(c, "block_header", "start")
    /\ LET h == archive.calls[c].hash IN
       IF metadata_found(archive.files, h)
       THEN LET b == ReadFile(archive.files, get_path_from_hash(h)) IN
            IF b = <<>> THEN Return(c, "BitcoinSVError", TRUE, <<>>)
            ELSE Return(c, "Ok", TRUE, <<Head(b)>>)
       ELSE Return(c, not_found, FALSE, <<>>)

\* store_block up to the return of BlockExists
store_block_check(c) ==
    /\ AtCall(c, "store_block", "start")
    /\ IF metadata_found(archive.files, archive.calls[c].hash)
       THEN Return(c, "BlockExists", TRUE, <<>>)
       ELSE /\ archive' = [archive EXCEPT !.calls[c].pc = "create"]
            /\ UNCHANGED cli
            /\ UNCHANGED storeVars
            /\ UNCHANGED actorVars

\* store_block: create_dir_all and File::create, which opens the file for
\* writing and truncates the file that is there
store_block_create(c) ==
    /\ AtCall(c, "store_block", "create")
    /\ archive' = [archive EXCEPT
          !.files = PutFile(@, get_path_from_hash(archive.calls[c].hash),
                            <<>>),
          !.calls[c].pc = "copy"]
    /\ UNCHANGED cli
    /\ UNCHANGED storeVars
    /\ UNCHANGED actorVars

\* store_block: tokio::io::copy writes the block from the start of the file
\* it opened, and store_block returns Ok(())
store_block_copy(c) ==
    /\ AtCall(c, "store_block", "copy")
    /\ LET h == archive.calls[c].hash
           p == get_path_from_hash(h)
           b == WriteFile(ReadFile(archive.files, p), archive.calls[c].block)
       IN archive' = [archive EXCEPT
             !.files = PutFile(@, p, b),
             !.okLog = @ \cup {[hash |-> h, bytes |-> archive.calls[c].block,
                                call |-> c]},
             !.calls[c] = [@ EXCEPT !.pc = "done", !.result = "Ok"]]
    /\ UNCHANGED cli
    /\ UNCHANGED storeVars
    /\ UNCHANGED actorVars

\* the orders in which read_dir can give the members of a set
Orders(S) == {o \in [1..Cardinality(S) -> S] : Range(o) = S}

\* block_list(): the channel is created and block_list_bgrnd is spawned with
\* root_path on its stack
block_list ==
    /\ archive.walk.pc = "idle"
    /\ archive' = [archive EXCEPT !.walk.pc = "run", !.walk.stack = <<<<>>>>]
    /\ UNCHANGED cli
    /\ UNCHANGED storeVars
    /\ UNCHANGED actorVars

\* the directories that read_dir(path) gives
SubDirs(files, path) ==
    {SubSeq(f.dir, 1, Len(path) + 1) :
        f \in {g \in files : /\ Len(g.dir) > Len(path)
                             /\ SubSeq(g.dir, 1, Len(path)) = path}}

\* block_list_bgrnd sends the hash of file f: it has the extension bin, its
\* stem is the hex of a hash, and its path is the one computed from its stem
is_block_file(f) ==
    /\ f.ext = "bin"
    /\ from_hex(f.stem) # None
    /\ f.dir = <<hex_62_64(f.stem.hash), hex_60_62(f.stem.hash)>>

\* block_list_bgrnd: one directory is popped from the stack and read; its
\* directories are pushed and the hashes of its block files are sent
block_list_bgrnd_dir ==
    /\ archive.walk.pc = "run"
    /\ archive.walk.stack # <<>>
    /\ LET st == archive.walk.stack
           path == st[Len(st)]
           here == {f \in archive.files : f.dir = path /\ is_block_file(f)}
       IN /\ Len(archive.walk.chan) + Cardinality(here) <= MAX_BLOCKS
          /\ \E ds \in Orders(SubDirs(archive.files, path)),
                fs \in Orders(here) :
                archive' = [archive EXCEPT
                   !.walk.stack = SubSeq(st, 1, Len(st) - 1) \o ds,
                   !.walk.chan = @ \o [i \in DOMAIN fs |->
                                          from_hex(fs[i].stem)[1]]]
    /\ UNCHANGED cli
    /\ UNCHANGED storeVars
    /\ UNCHANGED actorVars

\* block_list_bgrnd returns Ok(()): its sender is dropped
block_list_bgrnd_return ==
    /\ archive.walk.pc = "run"
    /\ archive.walk.stack = <<>>
    /\ archive' = [archive EXCEPT !.walk.pc = "done"]
    /\ UNCHANGED cli
    /\ UNCHANGED storeVars
    /\ UNCHANGED actorVars

\* the stream of block_list is polled: it gives the next hash of the channel,
\* and ends when the channel is closed and empty
block_list_next ==
    /\ ~archive.walk.ended
    /\ \/ /\ archive.walk.chan # <<>>
          /\ archive' = [archive EXCEPT
                !.walk.items = Append(@, Head(archive.walk.chan)),
                !.walk.chan = Tail(@)]
       \/ /\ archive.walk.chan = <<>>
          /\ archive.walk.pc = "done"
          /\ archive' = [archive EXCEPT !.walk.ended = TRUE]
    /\ UNCHANGED cli
    /\ UNCHANGED storeVars
    /\ UNCHANGED actorVars

\* the file of a block at its place
GoodFile(hash) ==
    [dir |-> <<hex_62_64(hash), hex_60_62(hash)>>,
     stem |-> [hash |-> hash, upper |-> FALSE], ext |-> "bin",
     bytes |-> <<9, 9, 9>>]

\* the files that can be under root_path before the first call: blocks at
\* their place, blocks in another directory or in root_path itself, files
\* with another extension, files named with upper case hex characters, and
\* files whose name is not a hash
InitFileChoices ==
    UNION {{GoodFile(h),
            [GoodFile(h) EXCEPT !.dir = <<hex_60_62(h), hex_62_64(h)>>],
            [GoodFile(h) EXCEPT !.dir = <<>>],
            [GoodFile(h) EXCEPT !.ext = "txt"],
            [GoodFile(h) EXCEPT !.stem.upper = TRUE]} : h \in ArchiveHashes}
    \cup {[GoodFile(1) EXCEPT !.stem.hash = NoId],
          [GoodFile(1) EXCEPT !.stem.hash = NoId, !.ext = ""]}

\* the archive with the files fs under root_path
ArchiveWith(fs) ==
    [IdleArchive EXCEPT
        !.files = fs,
        !.okLog = {[hash |-> h, bytes |-> GoodFile(h).bytes, call |-> 0] :
                      h \in {g \in ArchiveHashes : GoodFile(g) \in fs}}]

\* SpecArchive: calls on one archive, each made after the one before has
\* returned
InitArchive ==
    /\ db = EmptyDb
    /\ tasks = [t \in Tasks |-> IdleTask]
    /\ next_id_lock = 0
    /\ ncalls = 0
    /\ allocLog = <<>>
    /\ openLog = <<>>
    /\ ActorStarted
    /\ sync = IdleSync
    /\ cli = IdleCli
    /\ \E fs \in SUBSET InitFileChoices :
          /\ Cardinality(fs) <= MaxInitFiles
          /\ archive = ArchiveWith(fs)

\* every call made has returned
CallsReturned == \A c \in DOMAIN archive.calls : archive.calls[c].pc = "done"

NextArchive ==
    \/ \E op \in {"block_exists", "get_block", "block_size", "block_header"},
          h \in ArchiveHashes :
          CallsReturned /\ call(op, h, <<>>)
    \/ \E h \in ArchiveHashes, b \in BlockBytes :
          CallsReturned /\ call("store_block", h, b)
    \/ \E c \in 1..MaxArchiveCalls : block_exists(c)
    \/ \E c \in 1..MaxArchiveCalls : get_block(c)
    \/ \E c \in 1..MaxArchiveCalls : block_size(c)
    \/ \E c \in 1..MaxArchiveCalls : block_header(c)
    \/ \E c \in 1..MaxArchiveCalls : store_block_check(c)
    \/ \E c \in 1..MaxArchiveCalls : store_block_create(c)
    \/ \E c \in 1..MaxArchiveCalls : store_block_copy(c)

SpecArchive == InitArchive /\ [][NextArchive]_vars

\* SpecBlockList: block_list on an archive with files of every kind under
\* root_path, after store_block calls
InitBlockList ==
    /\ db = EmptyDb
    /\ tasks = [t \in Tasks |-> IdleTask]
    /\ next_id_lock = 0
    /\ ncalls = 0
    /\ allocLog = <<>>
    /\ openLog = <<>>
    /\ ActorStarted
    /\ sync = IdleSync
    /\ cli = IdleCli
    /\ \E fs \in SUBSET InitFileChoices :
          /\ Cardinality(fs) <= MaxListedFiles
          /\ archive = ArchiveWith(fs)

NextBlockList ==
    \/ \E h \in ArchiveHashes :
          /\ CallsReturned
          /\ archive.walk.pc = "idle"
          /\ call("store_block", h, <<1>>)
    \/ \E c \in 1..MaxArchiveCalls : store_block_check(c)
    \/ \E c \in 1..MaxArchiveCalls : store_block_create(c)
    \/ \E c \in 1..MaxArchiveCalls : store_block_copy(c)
    \/ CallsReturned /\ block_list
    \/ block_list_bgrnd_dir
    \/ block_list_bgrnd_return
    \/ block_list_next

SpecBlockList == InitBlockList /\ [][NextBlockList]_vars

\* the last call made
LastCall == archive.calls[Len(archive.calls)]

\* C32: store_block for a hash that is already stored returns the error
\* BlockExists and leaves the stored bytes of that block unchanged.
C32_StoreExistingIsRefused ==
    \A c \in DOMAIN archive.calls :
        LET k == archive.calls[c] IN
        (k.op = "store_block" /\ k.pc = "done" /\ k.before # None) =>
            /\ k.result = "BlockExists"
            /\ ReadFile(archive.files, get_path_from_hash(k.hash))
                  = k.before[1]

\* a block stored by a store_block call has been refused a second time
C32_Witness ==
    \E c, d \in DOMAIN archive.calls :
        /\ c < d
        /\ archive.calls[c].op = "store_block"
        /\ archive.calls[c].result = "Ok"
        /\ archive.calls[d].op = "store_block"
        /\ archive.calls[d].hash = archive.calls[c].hash
        /\ archive.calls[d].block # archive.calls[c].block
        /\ archive.calls[d].result = "BlockExists"

\* C33: after any sequence of store_block calls, for a hash h that was
\* stored block_exists(h) is true and get_block(h) returns exactly the bytes
\* given to the successful store_block(h); for a hash never stored at its
\* scheme path block_exists(h) is false and get_block, block_size and
\* block_header return BlockNotFound.
C33_StoredIsReadBack ==
    (archive.calls # <<>> /\ LastCall.pc = "done") =>
        LET k == LastCall
            st == {e \in archive.okLog : e.hash = k.hash}
        IN /\ \A e \in st :
                /\ k.op = "block_exists" => k.result = "Ok" /\ k.found
                /\ k.op = "get_block" => k.result = "Ok" /\ k.value = e.bytes
           /\ st = {} =>
                /\ k.op = "block_exists" => k.result = "Ok" /\ ~k.found
                /\ k.op \in {"get_block", "block_size", "block_header"} =>
                      k.result = "BlockNotFound"

\* a block has been stored and read back, and a hash that has only a file in
\* another directory has been looked up and not found
C33_Witness ==
    \E c, d, e \in DOMAIN archive.calls :
        /\ c < d /\ d < e /\ e = Len(archive.calls)
        /\ archive.calls[c].op = "store_block"
        /\ archive.calls[c].result = "Ok"
        /\ archive.calls[d].op = "get_block"
        /\ archive.calls[d].hash = archive.calls[c].hash
        /\ archive.calls[d].value = archive.calls[c].block
        /\ archive.calls[e].op = "block_header"
        /\ archive.calls[e].result = "BlockNotFound"
        /\ \E f \in archive.files :
              f.stem.hash = archive.calls[e].hash /\ f.ext = "bin"

\* C34: block_list yields each hash H exactly once for which a file exists
\* at root/H[62..64]/H[60..62]/H.bin and yields nothing else (not for files
\* with another extension, a non-hash name or a path that does not match the
\* scheme); every hash it yields is retrievable with get_block.
C34_BlockListYieldsStoredOnce ==
    archive.walk.ended =>
        \A h \in ArchiveHashes \cup Range(archive.walk.items) :
            Count(archive.walk.items, h) =
                IF metadata_found(archive.files, h) THEN 1 ELSE 0

\* SpecArchiveRace: store_block calls for one hash that run concurrently on
\* an empty archive
InitArchiveRace ==
    /\ db = EmptyDb
    /\ tasks = [t \in Tasks |-> IdleTask]
    /\ next_id_lock = 0
    /\ ncalls = 0
    /\ allocLog = <<>>
    /\ openLog = <<>>
    /\ ActorStarted
    /\ sync = IdleSync
    /\ cli = IdleCli
    /\ \E fs \in SUBSET {GoodFile(h) : h \in ArchiveHashes} :
          archive = ArchiveWith(fs)

NextArchiveRace ==
    \/ \E h \in ArchiveHashes, b \in BlockBytes : call("store_block", h, b)
    \/ \E c \in 1..MaxArchiveCalls : store_block_check(c)
    \/ \E c \in 1..MaxArchiveCalls : store_block_create(c)
    \/ \E c \in 1..MaxArchiveCalls : store_block_copy(c)

SpecArchiveRace == InitArchiveRace /\ [][NextArchiveRace]_vars

\* C40: when two store_block calls for the same hash run concurrently, at
\* most one returns Ok, the other returns BlockExists, and the stored bytes
\* are those of the call that returned Ok.
C40_ConcurrentStoresOneWins ==
    \A c, d \in DOMAIN archive.calls :
        LET k == archive.calls[c]
            l == archive.calls[d]
        IN (/\ c # d /\ k.hash = l.hash
            /\ k.pc = "done" /\ l.pc = "done"
            /\ k.before = None /\ l.before = None
            /\ \A e \in DOMAIN archive.calls :
                  archive.calls[e].hash = k.hash => e \in {c, d}) =>
              /\ {k.result, l.result} = {"Ok", "BlockExists"}
              /\ k.result = "Ok" =>
                    ReadFile(archive.files, get_path_from_hash(k.hash))
                       = k.block

\* ------------------------------------------- stability of committed records
\* SpecStable: a store that is opened and opened again while store_block_info
\* tasks run concurrently, for new hashes, for hashes already stored, for the
\* same hash twice and for the genesis header
NextStable ==
    \/ new
    \/ \E h \in {GenesisHash} \cup Hashes : \E nx \in CandidateNextIds(h) :
          Len(openLog) > 0 /\ store_block_info(h, nx)
    \/ \E t \in Tasks : task_get_block_id_from_hash(t)
    \/ \E t \in Tasks : task_lock_next_id(t)
    \/ \E t \in Tasks : task_get_next_id(t)
    \/ \E t \in Tasks : task_sub_block_info_by_hash(t)
    \/ \E t \in Tasks : task_commit(t)

SpecStable == InitAttrs /\ [][NextStable]_vars

\* the hash of the record stored at id i of database d
HashAt(d, i) == decode_block_info(d.infos[i]).hash

\* C39: records and index entries are stable: once a committed state maps
\* hash h to id i, every later committed state (after stores, re-stores,
\* concurrent stores of the same hash and re-opens) still maps h to i and
\* holds a record at id i with hash h; no BlockInfo record is ever deleted,
\* and the genesis record stays at id 0 with height 0.
C39_RecordsAndIndexStable ==
    [][/\ \A h \in DOMAIN db.hindex :
             /\ h \in DOMAIN db'.hindex
             /\ db'.hindex[h] = db.hindex[h]
       /\ \A h \in DOMAIN db'.hindex :
             /\ db'.hindex[h] \in DOMAIN db'.infos
             /\ HashAt(db', db'.hindex[h]) = h
       /\ \A i \in DOMAIN db.infos :
             /\ i \in DOMAIN db'.infos
             /\ HashAt(db', i) = HashAt(db, i)
       /\ 0 \in DOMAIN db.infos =>
             /\ HashAt(db', 0) = GenesisHash
             /\ decode_block_info(db'.infos[0]).height = 0]_vars

\* the store was opened twice; of two concurrent stores of one hash one
\* committed and one met a conflict, a later store of the same hash committed
\* on its id, and a store of the genesis header failed
C39_Witness ==
    /\ Len(openLog) = MaxOpens
    /\ \E t1, t2, t3 \in Tasks :
          /\ tasks[t1].cand.hash = tasks[t2].cand.hash
          /\ ReturnedOk(t1) /\ tasks[t1].isNew
          /\ Failed(t2) /\ tasks[t2].panic = "couldnt commit transaction"
          /\ tasks[t3].cand.hash = tasks[t1].cand.hash
          /\ ReturnedOk(t3) /\ ~tasks[t3].isNew
          /\ tasks[t3].block.id = tasks[t1].block.id

\* ----------------------------------------------------- calls on the handle
\* FDBChainStore::get_chain_state() through the command channel
send_get_chain_state == send("ChainState", 0, None)

\* FDBChainStore::get_block_info_by_hash(block_hash) of a caller other than
\* the synchronizer
send_get_block_info_by_hash(block_hash) ==
    send("BlockInfoByHash", block_hash, None)

\* the actor receives a ChainState message and spawns its task
run_recv_chain_state ==
    /\ actor = "select"
    /\ receiver # <<>>
    /\ requests[Head(receiver)].kind = "ChainState"
    /\ receiver' = Tail(receiver)
    /\ requests' = [requests EXCEPT ![Head(receiver)] =
           [@ EXCEPT !.pc = "task", !.early = TRUE]]
    /\ UNCHANGED <<handles, actor, sync>>
    /\ UNCHANGED storeVars
    /\ UNCHANGED toolVars

\* what get_chain_state returns for the reply it received
chain_state_result(reply) ==
    IF reply = "ChainStateReply" THEN "Ok"
    ELSE IF reply = "dropped" THEN "OneshotRecvError"
    ELSE "Internal"

\* the task of handle_get_chain_state of request i: one get of the state key
\* in its own transaction, then the reply; without a ChainState in the
\* database the task panics and its reply sender is dropped
task_handle_get_chain_state(i) ==
    /\ i \in DOMAIN requests
    /\ requests[i].pc = "task"
    /\ requests[i].kind = "ChainState"
    /\ requests' = [requests EXCEPT ![i] =
           IF get_chain_state(db) = EmptyDb.state
           THEN [@ EXCEPT !.pc = "done", !.failed = TRUE,
                          !.result = chain_state_result("dropped")]
           ELSE [@ EXCEPT !.pc = "done",
                          !.value = Some(get_chain_state(db)),
                          !.result = chain_state_result("ChainStateReply")]]
    /\ UNCHANGED <<handles, receiver, actor, sync>>
    /\ UNCHANGED storeVars
    /\ UNCHANGED toolVars

\* the hashes callers submit to store_block_info in SpecCalls: twice the
\* same child of genesis and a child of it
CallHashes == {1, 3}

\* the store_block_info calls made so far
StoreCalls == {i \in DOMAIN requests : requests[i].kind = "StoreBlockInfo"}

\* the steps of the actor in SpecCalls: the arms of its select! for the
\* messages of the calls, and its return
RunCallSteps ==
    \/ run_recv_chain_state
    \/ run_recv_block_info
    \/ run_recv_block_info_by_hash
    \/ run_recv_store_block_info
    \/ run_recv_shutdown
    \/ run_return

\* the steps of the spawned tasks and of the callers' futures in SpecCalls
TaskCallSteps ==
    \/ TaskSteps
    \/ \E i \in 1..MaxRequests : task_handle_get_chain_state(i)
    \/ \E i \in 1..MaxRequests : task_get_block_info_by_hash(i)

\* SpecCalls: calls of the five kinds on the handle of an opened store, in
\* any number up to MaxRequests and at any time, before and after shutdown
NextCalls ==
    \/ send_get_chain_state
    \/ get_block_info(0)
    \/ send_get_block_info_by_hash(1)
    \/ \E h \in CallHashes :
          /\ Cardinality(StoreCalls) < MaxTasks
          /\ send_store_block_info(h)
    \/ shutdown
    \/ RunCallSteps
    \/ TaskCallSteps

SpecCalls == InitActor /\ [][NextCalls]_vars

\* the scheduler runs every task that can run: the actor and each spawned task
FairCalls == SpecCalls /\ WF_vars(RunCallSteps) /\ WF_vars(TaskCallSteps)

\* the task of the store_block_info of request i panicked
TaskFailed(i) ==
    /\ requests[i].kind = "StoreBlockInfo"
    /\ requests[i].slot # 0
    /\ tasks[requests[i].slot].panic # "none"

\* C38: every call on the handle (get_chain_state, get_block_info,
\* get_block_info_by_hash, store_block_info, shutdown) eventually returns its
\* reply or an Err, provided KV operations return; when its spawned task
\* fails (unknown parent, commit conflict), and when its message is still
\* queued or arrives after the actor processed Shutdown, the caller gets an
\* Err and never waits forever. A call that has returned stays returned, so
\* the calls all return when, from some point on, none of them is pending.
C38_EveryCallReturns ==
    /\ <>[](\A i \in DOMAIN requests :
              Returned(i) /\ requests[i].pc = "done")
    /\ [](\A i \in DOMAIN requests :
            Returned(i) =>
               /\ requests[i].result \in ErrorResults \cup {"Ok"}
               /\ TaskFailed(i) => requests[i].result \in ErrorResults
               /\ requests[i].late => requests[i].result \in ErrorResults)

\* of three store_block_info calls, one failed on a commit conflict and one
\* on an unknown parent, and both callers have their Err
C38_Witness ==
    \E i, j \in DOMAIN requests :
        /\ TaskFailed(i) /\ requests[i].result = "OneshotRecvError"
        /\ tasks[requests[i].slot].panic = "couldnt commit transaction"
        /\ TaskFailed(j) /\ requests[j].result = "OneshotRecvError"
        /\ tasks[requests[j].slot].panic = "parent not found"

\* ------------------------------------------------- the command line program
\* cli is the run of one command of bsvdb: cmd is the command, ba_enabled and
\* cs_enabled are block_archive.enabled and chain_store.enabled of the
\* configuration, all_tips is the option of the rpc import. opened tells
\* that FDBChainStore::new was called and ops lists the calls made on the
\* ChainStore. tips, known_hashes, fetch_hashes and hash are the locals of
\* rpc_import and imported lists the hashes it stored.

\* the blocks of the SV node: 1 is the genesis block, 2 the block of the main
\* chain on it, 3 and 4 are blocks of two other branches on it
NodeBlocks == {1, 2, 3, 4}

\* the hash of the active tip of the node
ActiveTip == 2

\* the answer of the node to getblockheader: the prev_hash of the block, the
\* zero hash for the genesis block
prev_hash(hash) == IF hash = 1 THEN NoId ELSE 1

\* the answer of the node to getblock: the bytes of the block
get_block_binary(hash) == <<hash, hash>>

\* GetChainTipsResultStatus
TipStatuses == {"Invalid", "HeadersOnly", "ValidHeaders", "ValidFork", "Active"}

\* the answers of the node to getchaintips: the active tip and the tips of
\* the other branches, each with a status, in either order
ChainTips ==
    {<<[hash |-> ActiveTip, status |-> "Active"], [hash |-> 3, status |-> s]>> :
        s \in TipStatuses \ {"Active"}}
    \cup
    {<<[hash |-> 3, status |-> s], [hash |-> ActiveTip, status |-> "Active"]>> :
        s \in TipStatuses \ {"Active"}}
    \cup
    {<<[hash |-> 3, status |-> s], [hash |-> ActiveTip, status |-> "Active"],
       [hash |-> 4, status |-> "Invalid"]>> :
        s \in {"ValidFork", "HeadersOnly"}}

\* the commands of bsvdb that the model runs
Commands == {"ba import rpc", "cs block", "cs list", "sync"}

\* the command returns or the process ends
Exit(pc) == cli' = [cli EXCEPT !.pc = pc]

\* main: the configuration is read and the command is dispatched. A BA
\* command returns when the BlockArchive is not enabled and rpc_import then
\* asks the node for its chain tips; a CS command prints when the ChainStore
\* is not enabled and goes on; sync calls sync_piped.
main ==
    /\ cli.pc = "main"
    /\ \/ /\ cli.cmd = "ba import rpc"
          /\ \/ ~cli.ba_enabled /\ Exit("done")
             \/ /\ cli.ba_enabled
                /\ \E t \in ChainTips :
                      cli' = [cli EXCEPT !.pc = "for_tips", !.tips = t]
       \/ /\ cli.cmd \in {"cs block", "cs list"}
          /\ Exit("boot")
       \/ /\ cli.cmd = "sync"
          /\ Exit("sync_piped")
    /\ UNCHANGED archive
    /\ UNCHANGED actorVars
    /\ UNCHANGED storeVars

\* get_block_info of cs.rs: the ChainStore is opened, asked for the block
\* and shut down
cs_get_block_info ==
    /\ cli.pc = "boot"
    /\ cli.cmd = "cs block"
    /\ cli' = [cli EXCEPT !.pc = "done", !.opened = TRUE,
                          !.ops = @ \o <<"get_block_info_by_hash", "shutdown">>]
    /\ UNCHANGED archive
    /\ UNCHANGED actorVars
    /\ UNCHANGED storeVars

\* cs_list_blocks: the ChainStore is opened, asked for the stream of the
\* block and its ancestors, and shut down
cs_list_blocks ==
    /\ cli.pc = "boot"
    /\ cli.cmd = "cs list"
    /\ cli' = [cli EXCEPT !.pc = "done", !.opened = TRUE,
                          !.ops = @ \o <<"get_block_infos", "shutdown">>]
    /\ UNCHANGED archive
    /\ UNCHANGED actorVars
    /\ UNCHANGED storeVars

\* BSVDBConfig::check_block_archive_enabled
check_block_archive_enabled == cli.ba_enabled

\* BSVDBConfig::check_chain_store_enabled
check_chain_store_enabled == cli.cs_enabled

\* sync_piped up to the opening of the stores: it returns the error of the
\* two checks, on which main panics, and opens the ChainStore otherwise
sync_piped_open ==
    /\ cli.pc = "sync_piped"
    /\ IF check_block_archive_enabled /\ check_chain_store_enabled
          THEN cli' = [cli EXCEPT !.pc = "syncing", !.opened = TRUE]
          ELSE Exit("panicked")
    /\ UNCHANGED archive
    /\ UNCHANGED actorVars
    /\ UNCHANGED storeVars

\* the synchronisation of sync_piped, as far as the ChainStore sees it:
\* the get_block_info_by_hash calls of stage1, then the return
sync_piped_calls ==
    /\ cli.pc = "syncing"
    /\ cli' = [cli EXCEPT !.pc = "done",
                          !.ops = @ \o <<"get_block_info_by_hash">>]
    /\ UNCHANGED archive
    /\ UNCHANGED actorVars
    /\ UNCHANGED storeVars

\* rpc_import, the test of the status of a chain tip; all_tips is not read
tip_is_followed(t, all_tips) ==
    t.status \in {"Active", "ValidFork", "ValidHeaders"}

\* rpc_import, the for loop over the chain tips: a tip that is followed
\* starts the walk down, another one is ignored; after the last tip the
\* command returns
rpc_import_for_tips ==
    /\ cli.pc = "for_tips"
    /\ IF cli.tips = <<>>
          THEN Exit("done")
          ELSE IF tip_is_followed(Head(cli.tips), cli.all_tips)
                  THEN cli' = [cli EXCEPT !.pc = "follow",
                                         !.tips = Tail(@),
                                         !.fetch_hashes = <<>>,
                                         !.hash = Head(cli.tips).hash]
                  ELSE cli' = [cli EXCEPT !.tips = Tail(@)]
    /\ UNCHANGED archive
    /\ UNCHANGED actorVars
    /\ UNCHANGED storeVars

\* rpc_import, one turn of the loop that follows the chain down: a hash not
\* known yet becomes known and, when the archive does not hold its block, is
\* pushed and replaced by its prev_hash; the node knows no header for the
\* zero hash, and the unwrap of its answer panics
rpc_import_follow ==
    /\ cli.pc = "follow"
    /\ IF cli.hash \in cli.known_hashes
          THEN cli' = [cli EXCEPT !.pc = "fetch"]
          ELSE IF metadata_found(archive.files, cli.hash)
                  THEN cli' = [cli EXCEPT !.known_hashes = @ \cup {cli.hash}]
                  ELSE IF cli.hash \in NodeBlocks
                          THEN cli' = [cli EXCEPT
                                         !.known_hashes = @ \cup {cli.hash},
                                         !.fetch_hashes = Append(@, cli.hash),
                                         !.hash = prev_hash(cli.hash)]
                          ELSE cli' = [cli EXCEPT
                                         !.pc = "panicked",
                                         !.known_hashes = @ \cup {cli.hash},
                                         !.fetch_hashes = Append(@, cli.hash)]
    /\ UNCHANGED archive
    /\ UNCHANGED actorVars
    /\ UNCHANGED storeVars

\* rpc_import, one turn of the loop that fetches: the last hash pushed is
\* popped, its block is asked from the node and stored in the archive; with
\* nothing left the for loop goes on
rpc_import_fetch ==
    /\ cli.pc = "fetch"
    /\ IF cli.fetch_hashes = <<>>
          THEN /\ Exit("for_tips")
               /\ UNCHANGED archive
          ELSE LET h == cli.fetch_hashes[Len(cli.fetch_hashes)]
               IN IF metadata_found(archive.files, h)
                     THEN /\ Exit("panicked")
                          /\ UNCHANGED archive
                     ELSE /\ archive' = [archive EXCEPT !.files =
                                 PutFile(@, get_path_from_hash(h),
                                         get_block_binary(h))]
                          /\ cli' = [cli EXCEPT
                                 !.fetch_hashes = SubSeq(@, 1, Len(@) - 1),
                                 !.imported = Append(@, h)]
    /\ UNCHANGED actorVars
    /\ UNCHANGED storeVars

\* SpecCli: one command of bsvdb is run with a configuration, against a node
\* and an archive that holds some of the node's blocks
InitCli ==
    /\ db = EmptyDb
    /\ tasks = [t \in Tasks |-> IdleTask]
    /\ next_id_lock = 0
    /\ ncalls = 0
    /\ allocLog = <<>>
    /\ openLog = <<>>
    /\ ActorStarted
    /\ sync = IdleSync
    /\ \E fs \in SUBSET {GoodFile(h) : h \in NodeBlocks \ {4}} :
          archive = [IdleArchive EXCEPT !.files = fs]
    /\ \E c \in Commands, ba \in BOOLEAN, cs \in BOOLEAN, a \in BOOLEAN :
          /\ (c # "ba import rpc") => ~a
          /\ cli = [IdleCli EXCEPT !.pc = "main", !.cmd = c,
                                   !.ba_enabled = ba, !.cs_enabled = cs,
                                   !.all_tips = a]

NextCli ==
    \/ main
    \/ cs_get_block_info
    \/ cs_list_blocks
    \/ sync_piped_open
    \/ sync_piped_calls
    \/ rpc_import_for_tips
    \/ rpc_import_follow
    \/ rpc_import_fetch

SpecCli == InitCli /\ [][NextCli]_vars

\* C35: chain_store.enabled gates the ChainStore: when it is false, no
\* command (CS block, CS list, sync) opens the ChainStore or issues an
\* operation against it.
C35_DisabledStoreIsNotOpened ==
    ~cli.cs_enabled => (~cli.opened /\ cli.ops = <<>>)

\* the blocks of the main chain of the node: the active tip and its ancestors
RECURSIVE ChainOf(_)
ChainOf(hash) == IF hash = NoId THEN {} ELSE {hash} \cup ChainOf(prev_hash(hash))

\* C36: rpc_import without --all-tips imports missing blocks only along the
\* main chain of the node, the one of its active tip; blocks of other tips
\* are imported only with --all-tips.
C36_OnlyMainChainWithoutAllTips ==
    ~cli.all_tips =>
        \A k \in DOMAIN cli.imported : cli.imported[k] \in ChainOf(ActiveTip)

====
